---- MODULE Spec2Model ----
(***************************************************************************)
(* A state-machine model of the phoenix-wwv detection engine.              *)
(*                                                                         *)
(* Number representation.  The C code computes in single-precision floats; *)
(* the model uses scaled integers:                                         *)
(*   - times (ms) are integers in units of 0.01 ms, so one 256-sample      *)
(*     frame at 50 kHz (5.12 ms) is exactly 512 units;                     *)
(*   - FFT bucket energies, the noise floor and the thresholds are in      *)
(*     units of 0.0001 (NOISE_FLOOR_MIN is 1 unit);                        *)
(*   - correlation magnitudes are in units of 0.001;                       *)
(*   - threshold multipliers are in tenths, the adaptation factors alpha   *)
(*     in 1/10000, the warmup rate in percent.                             *)
(* Products are rounded towards minus infinity (\div).  No frame count of  *)
(* the model is large enough for float rounding of frame*5.12 to matter,   *)
(* and no duration bound of the code is a whole number of frames.          *)
(***************************************************************************)
EXTENDS Integers, Sequences, FiniteSets, TLC

(***************************************************************************)
(* Program constants (tick_internal.h and its documentation)               *)
(***************************************************************************)
TICK_FFT_SIZE == 256
TICK_SAMPLE_RATE == 50000
TICK_TEMPLATE_SAMPLES == 240
CORR_DECIMATION == 8
FRAME_DURATION_MS == (TICK_FFT_SIZE * 100000) \div TICK_SAMPLE_RATE

TICK_MIN_DURATION_MS == 200
TICK_MAX_DURATION_MS == 5000
MARKER_MAX_DURATION_MS == 100000
TICK_COOLDOWN_MS == 50000
MARKER_MIN_DURATION_MS == 60000
MARKER_MAX_DURATION_MS_CHECK == 150000
MARKER_MIN_INTERVAL_MS == 5500000
TICK_FILTER_DELAY_MS == 300
TICK_GATE_START_MS == 0
TICK_GATE_END_MS == 10000
GATE_RECOVERY_MS == 500000
SECOND_MS == 100000

TICK_WARMUP_FRAMES == 50
TICK_WARMUP_ADAPT_PCT == 5
TICK_HYSTERESIS_TENTHS == 7
TICK_THRESHOLD_MULT == 20
TICK_ALPHA_DOWN == 9980
TICK_ALPHA_UP == 9998
NOISE_FLOOR_INIT == 100
NOISE_FLOOR_MIN == 1
NOISE_FLOOR_MAX == 50000
CORR_THRESHOLD_MULT == 5
CORR_NOISE_ADAPT_DIV == 100
CORR_NOISE_EPSILON == 1

\* MS_TO_FRAMES(ms) = (int)(ms / FRAME_DURATION_MS + 0.5f)
MS_TO_FRAMES(ms) == (2 * ms + FRAME_DURATION_MS) \div (2 * FRAME_DURATION_MS)

\* C fmodf: the remainder has the sign of the dividend.
Fmodf(x, m) == IF x >= 0 THEN x % m ELSE 0 - ((0 - x) % m)

(***************************************************************************)
(* State                                                                   *)
(*   td          the tick detector (struct tick_detector)                  *)
(*   pulse       input stream: how many frames the current pulse has       *)
(*               lasted (0: the previous frame was quiet) and the          *)
(*               magnitude the matched filter reports for it               *)
(*   events      the events delivered to the callbacks by the last call    *)
(*   last_op     the API call that was made last                           *)
(*   prev_tick_ts  the latest timestamp among the TickEvents delivered     *)
(*               before the last call (-1: none)                           *)
(*   pulse_events  the kinds of event delivered for the current pulse      *)
(*   gate_ref    the frame from which "no tick accepted" is counted: the   *)
(*               later of enabling the gate and the last accepted tick     *)
(*   bypassed    the current pulse was admitted in recovery mode           *)
(*   api_calls   how many setter calls the caller has made                 *)
(*   level       input stream: the bucket energy of the current stretch of *)
(*               a piecewise-constant input                                *)
(*   silent      every frame fed so far had zero energy                    *)
(*   md          the minute-marker detector (struct marker_detector)       *)
(*   md_events   the events its callback received in the last frame        *)
(*   md_level    the bucket energy of the current stretch of its input     *)
(*   md_left     how many more frames the current pulse of its input lasts *)
(*   md_since    the frame in which it entered its current state           *)
(*   md_prev_event_ms  the timestamp of the marker event before the last   *)
(*               one delivered (-1: none)                                  *)
(*   fd          the BCD frequency-domain detector                         *)
(*               (struct bcd_freq_detector)                                *)
(*   fd_events   the events its callback received in the last frame        *)
(*   fd_level    the bucket energy of the current stretch of its input     *)
(*   bcd_corr    the BCD correlator (struct bcd_correlator)                *)
(*   sym_events  the symbol events its callback received in the last call  *)
(*   sym_log     all the symbol events its callback has received           *)
(*   bcd_calls   how many pulse events the BCD detectors have reported     *)
(*   time_prev_ms, freq_prev_ms  the timestamp of the latest pulse event   *)
(*               of the time-domain and of the frequency-domain detector   *)
(*   bcd_in      the pulse event the correlator was handed last, with what *)
(*               the sync detector reported during the call                *)
(*   bt          the BCD time-domain detector (struct bcd_time_detector)   *)
(*   bt_events   the events its callback received in the last frame        *)
(*   bt_level    the bucket energy of the current stretch of its input     *)
(*   bt_recent   the bucket energies of its last frames, latest last       *)
(*   call        the last tunable setter call: the function, the value     *)
(*               passed and what the caller got back                       *)
(*   sync_det    the sync detector                                         *)
(*   sync_log    what the sync detector was last given                     *)
(*   mgr         the detector manager (struct wwv_detector_manager) with   *)
(*               the components it owns                                    *)
(*   mgr_out     what the last manager call delivered, and to whom         *)
(*   fft         the FFT processor last returned by fft_processor_create   *)
(*   fft_req     the arguments of the last fft_processor_create call       *)
(*   tdc         the outcome of the last tick_detector_create call: the    *)
(*               allocations that failed, the object built and the heap    *)
(*   mgr_req     the arguments of the last wwv_detector_manager_create     *)
(*               call and the component constructors that failed in it     *)
(***************************************************************************)
VARIABLES td, pulse, events, last_op, prev_tick_ts, pulse_events, gate_ref,
          bypassed, api_calls, level, silent,
          md, md_events, md_level, md_left, md_since, md_prev_event_ms,
          fd, fd_events, fd_level,
          bcd_corr, sym_events, sym_log, bcd_calls, time_prev_ms, freq_prev_ms,
          bcd_in,
          bt, bt_events, bt_level, bt_recent,
          call,
          sync_det, sync_log,
          mgr, mgr_out,
          fft, fft_req,
          tdc, mgr_req

tickVars == <<td, pulse, events, last_op, prev_tick_ts, pulse_events, gate_ref,
              bypassed, api_calls, level, silent>>
markerVars == <<md, md_events, md_level, md_left, md_since, md_prev_event_ms>>
bcdFreqVars == <<fd, fd_events, fd_level>>

corrVars == <<bcd_corr, sym_events, sym_log, bcd_calls, time_prev_ms, freq_prev_ms,
              bcd_in>>

bcdTimeVars == <<bt, bt_events, bt_level, bt_recent>>
callVars == <<call>>
syncVars == <<sync_det, sync_log>>
mgrVars == <<mgr, mgr_out>>
fftVars == <<fft, fft_req>>
ctorVars == <<tdc, mgr_req>>
laterVars == <<bcdTimeVars, callVars, syncVars, mgrVars, fftVars, ctorVars>>

vars == <<tickVars, markerVars, bcdFreqVars, corrVars, laterVars>>

\* tick_detector_create: the fields after construction (calloc zeroes the rest).
TickDetectorCreate ==
    [ state |-> "IDLE",
      noise_floor |-> NOISE_FLOOR_INIT,
      threshold_high |-> (NOISE_FLOOR_INIT * TICK_THRESHOLD_MULT) \div 10,
      threshold_low |-> (((NOISE_FLOOR_INIT * TICK_THRESHOLD_MULT) \div 10)
                          * TICK_HYSTERESIS_TENTHS) \div 10,
      threshold_multiplier |-> TICK_THRESHOLD_MULT,
      adapt_alpha_down |-> TICK_ALPHA_DOWN,
      adapt_alpha_up |-> TICK_ALPHA_UP,
      min_duration_ms |-> TICK_MIN_DURATION_MS,
      warmup_complete |-> FALSE,
      frame_count |-> 0,
      start_frame |-> 0,
      tick_start_frame |-> 0,
      tick_duration_frames |-> 0,
      cooldown_frames |-> 0,
      ticks_detected |-> 0,
      ticks_rejected |-> 0,
      markers_detected |-> 0,
      last_tick_frame |-> 0,
      last_marker_frame |-> 0,
      corr_peak |-> 0,
      corr_noise_floor |-> 0,
      gate |-> [ epoch_ms |-> 0, enabled |-> FALSE,
                 last_tick_frame_gated |-> 0, recovery_mode |-> FALSE ] ]

(***************************************************************************)
(* Correlation pipeline (tick_detector_process_sample, per 8th sample)     *)
(***************************************************************************)
\* One correlation result: the adaptation of the correlation noise floor.
CorrNoiseFloorUpdate(nf, corr, state) ==
    IF corr < nf \/ nf < CORR_NOISE_EPSILON
    THEN nf + ((corr - nf) \div CORR_NOISE_ADAPT_DIV)
    ELSE IF state = "IDLE"
         THEN nf + ((corr - nf) \div (CORR_NOISE_ADAPT_DIV * 10))
         ELSE nf

RECURSIVE CorrNoiseFloorRuns(_, _, _, _)
CorrNoiseFloorRuns(nf, corr, state, n) ==
    IF n = 0 THEN nf
    ELSE CorrNoiseFloorRuns(CorrNoiseFloorUpdate(nf, corr, state), corr, state, n - 1)

\* n correlation results of magnitude corr: noise floor and peak tracking.
CorrelationRuns(d, corr, n) ==
    [d EXCEPT !.corr_noise_floor = CorrNoiseFloorRuns(@, corr, d.state, n),
              !.corr_peak = IF n > 0 /\ d.state = "IN_TICK" /\ corr > @ THEN corr ELSE @]

\* How many samples of frame f run the correlator: sample counts k in
\* (f*N, (f+1)*N] with k >= TICK_TEMPLATE_SAMPLES and k % CORR_DECIMATION = 0.
CorrRunsInFrame(f) ==
    LET hi == ((f + 1) * TICK_FFT_SIZE) \div CORR_DECIMATION
        first == (TICK_TEMPLATE_SAMPLES + CORR_DECIMATION - 1) \div CORR_DECIMATION
        lo == (f * TICK_FFT_SIZE) \div CORR_DECIMATION + 1
        from == IF lo > first THEN lo ELSE first
    IN IF hi >= from THEN hi - from + 1 ELSE 0

(***************************************************************************)
(* Timing gate                                                             *)
(***************************************************************************)
\* Faulty variant: the position in the second is taken from the stream time
\* alone, without subtracting the installed epoch.
GateOpenIgnoringEpoch(d, current_ms) ==
    IF ~d.gate.enabled THEN TRUE
    ELSE IF d.gate.recovery_mode THEN TRUE
    ELSE LET ms_into_second == Fmodf(current_ms, SECOND_MS)
         IN ms_into_second >= TICK_GATE_START_MS /\ ms_into_second <= TICK_GATE_END_MS

tick_state_is_gate_open(d, current_ms) ==
    IF ~d.gate.enabled THEN TRUE
    ELSE IF d.gate.recovery_mode THEN TRUE
    ELSE LET r == Fmodf(current_ms - d.gate.epoch_ms, SECOND_MS)
             ms_into_second == IF r < 0 THEN r + SECOND_MS ELSE r
         IN ms_into_second >= TICK_GATE_START_MS /\ ms_into_second <= TICK_GATE_END_MS

(***************************************************************************)
(* tick_state_machine_run, in the order of the code                        *)
(***************************************************************************)
Thresholds(d) ==
    LET th == (d.noise_floor * d.threshold_multiplier) \div 10
    IN [d EXCEPT !.threshold_high = th,
                 !.threshold_low = (th * TICK_HYSTERESIS_TENTHS) \div 10]

\* Warmup phase: fast symmetric adaptation, clamped from below only.
WarmupStep(d, energy) ==
    LET nf0 == d.noise_floor + ((TICK_WARMUP_ADAPT_PCT * (energy - d.noise_floor)) \div 100)
        nf1 == IF nf0 < NOISE_FLOOR_MIN THEN NOISE_FLOOR_MIN ELSE nf0
        d1 == Thresholds([d EXCEPT !.noise_floor = nf1])
    IN IF d.frame_count >= d.start_frame + TICK_WARMUP_FRAMES
       THEN [d1 EXCEPT !.warmup_complete = TRUE]
       ELSE d1

\* Gate recovery check.
GateRecoveryCheck(d) ==
    LET frame == d.frame_count
        since == IF d.gate.last_tick_frame_gated > 0
                 THEN (frame - d.gate.last_tick_frame_gated) * FRAME_DURATION_MS
                 ELSE 0
    IN IF d.gate.enabled /\ ~d.gate.recovery_mode /\ d.state = "IDLE"
          /\ d.gate.last_tick_frame_gated > 0 /\ since >= GATE_RECOVERY_MS
       THEN [d EXCEPT !.gate.recovery_mode = TRUE]
       ELSE d

\* Faulty variant: the noise floor is not clamped from below.
AdaptNoiseFloorNoMin(d, energy) ==
    IF d.state = "IDLE" /\ energy < d.threshold_high
    THEN LET a == IF energy < d.noise_floor THEN d.adapt_alpha_down ELSE d.adapt_alpha_up
             nf0 == (d.noise_floor * a + energy * (10000 - a)) \div 10000
             nf2 == IF nf0 > NOISE_FLOOR_MAX THEN NOISE_FLOOR_MAX ELSE nf0
         IN Thresholds([d EXCEPT !.noise_floor = nf2])
    ELSE d

\* Adaptive noise floor: asymmetric, only while IDLE and below threshold.
AdaptNoiseFloor(d, energy) ==
    IF d.state = "IDLE" /\ energy < d.threshold_high
    THEN LET a == IF energy < d.noise_floor THEN d.adapt_alpha_down ELSE d.adapt_alpha_up
             nf0 == (d.noise_floor * a + energy * (10000 - a)) \div 10000
             nf1 == IF nf0 < NOISE_FLOOR_MIN THEN NOISE_FLOOR_MIN ELSE nf0
             nf2 == IF nf1 > NOISE_FLOOR_MAX THEN NOISE_FLOOR_MAX ELSE nf1
         IN Thresholds([d EXCEPT !.noise_floor = nf2])
    ELSE d

\* Classification of a pulse that ended by an energy drop.
IsMarkerDuration(duration_ms) ==
    duration_ms >= MARKER_MIN_DURATION_MS /\ duration_ms <= MARKER_MAX_DURATION_MS_CHECK

SinceLastMarkerMs(d) ==
    IF d.last_marker_frame > 0
    THEN (d.tick_start_frame - d.last_marker_frame) * FRAME_DURATION_MS
    ELSE MARKER_MIN_INTERVAL_MS + SECOND_MS

\* Faulty variant: the interval since the previous marker is not checked.
ValidMarkerIntervalAlways(d) == TRUE

ValidMarkerInterval(d) == SinceLastMarkerMs(d) >= MARKER_MIN_INTERVAL_MS

\* Faulty variant: a correlation peak equal to the bound is accepted.
ValidCorrelationAtLeast(d) == d.corr_peak >= d.corr_noise_floor * CORR_THRESHOLD_MULT

ValidCorrelation(d) == d.corr_peak > d.corr_noise_floor * CORR_THRESHOLD_MULT

\* Faulty variant: the upper bound on a tick's duration is not checked.
IsTickDurationNoMax(d, duration_ms) == duration_ms >= d.min_duration_ms

IsTickDuration(d, duration_ms) ==
    duration_ms >= d.min_duration_ms /\ duration_ms <= TICK_MAX_DURATION_MS

\* d is the detector with tick_duration_frames already incremented.
Classify(d) ==
    LET duration_ms == d.tick_duration_frames * FRAME_DURATION_MS
    IN IF IsMarkerDuration(duration_ms) /\ ValidMarkerInterval(d) THEN "MARKER"
       ELSE IF IsTickDuration(d, duration_ms) /\ ValidCorrelation(d) THEN "TICK"
       ELSE "REJECT"

\* Faulty variant: the timestamp is taken relative to the start of the pulse.
TickTimestampMsRelative(d) == d.tick_duration_frames * FRAME_DURATION_MS

TickTimestampMs(d) == d.frame_count * FRAME_DURATION_MS

MarkerEvent(d) ==
    LET duration_ms == d.tick_duration_frames * FRAME_DURATION_MS
        timestamp_ms == d.frame_count * FRAME_DURATION_MS
    IN [ type |-> "MARKER",
         number |-> d.markers_detected + 1,
         timestamp_ms |-> timestamp_ms,
         start_timestamp_ms |-> timestamp_ms - duration_ms - TICK_FILTER_DELAY_MS,
         duration_ms |-> duration_ms,
         interval_ms |-> SinceLastMarkerMs(d),
         corr_peak |-> d.corr_peak,
         corr_noise_floor |-> d.corr_noise_floor ]

TickEvent(d) ==
    [ type |-> "TICK",
      number |-> d.ticks_detected + 1,
      timestamp_ms |-> TickTimestampMs(d),
      start_timestamp_ms |-> d.tick_start_frame * FRAME_DURATION_MS,
      duration_ms |-> d.tick_duration_frames * FRAME_DURATION_MS,
      interval_ms |-> IF d.last_tick_frame > 0
                      THEN (d.tick_start_frame - d.last_tick_frame) * FRAME_DURATION_MS
                      ELSE 0,
      corr_peak |-> d.corr_peak,
      corr_noise_floor |-> d.corr_noise_floor ]

\* Faulty variant: a marker-length pulse falls through to the tick callback too.
PulseEventsBoth(d) ==
    CASE Classify(d) = "MARKER" -> <<MarkerEvent(d), TickEvent(d)>>
      [] Classify(d) = "TICK" -> <<TickEvent(d)>>
      [] OTHER -> <<>>

\* The events a classified pulse delivers to the registered callbacks.
PulseEvents(d) ==
    CASE Classify(d) = "MARKER" -> <<MarkerEvent(d)>>
      [] Classify(d) = "TICK" -> <<TickEvent(d)>>
      [] OTHER -> <<>>

\* Faulty variant: an accepted tick does not clear recovery mode.
PulseEndKeepRecovery(d) ==
    LET frame == d.frame_count
        d1 == CASE Classify(d) = "MARKER" ->
                     [d EXCEPT !.markers_detected = @ + 1,
                               !.last_marker_frame = d.tick_start_frame]
                [] Classify(d) = "TICK" ->
                     [d EXCEPT !.ticks_detected = @ + 1,
                               !.gate.last_tick_frame_gated =
                                   IF d.gate.enabled THEN frame ELSE @,
                               !.last_tick_frame = d.tick_start_frame]
                [] OTHER -> [d EXCEPT !.ticks_rejected = @ + 1]
    IN [d1 EXCEPT !.state = "COOLDOWN",
                  !.cooldown_frames = MS_TO_FRAMES(TICK_COOLDOWN_MS)]

\* Faulty variant: a rejected pulse is not counted.
PulseEndRejectUncounted(d) ==
    LET frame == d.frame_count
        d1 == CASE Classify(d) = "MARKER" ->
                     [d EXCEPT !.markers_detected = @ + 1,
                               !.last_marker_frame = d.tick_start_frame]
                [] Classify(d) = "TICK" ->
                     [d EXCEPT !.ticks_detected = @ + 1,
                               !.gate.last_tick_frame_gated =
                                   IF d.gate.enabled THEN frame ELSE @,
                               !.gate.recovery_mode =
                                   IF d.gate.enabled THEN FALSE ELSE @,
                               !.last_tick_frame = d.tick_start_frame]
                [] OTHER -> d
    IN [d1 EXCEPT !.state = "COOLDOWN",
                  !.cooldown_frames = MS_TO_FRAMES(TICK_COOLDOWN_MS)]

\* The detector after a pulse that ended by an energy drop.
PulseEnd(d) ==
    LET frame == d.frame_count
        d1 == CASE Classify(d) = "MARKER" ->
                     [d EXCEPT !.markers_detected = @ + 1,
                               !.last_marker_frame = d.tick_start_frame]
                [] Classify(d) = "TICK" ->
                     [d EXCEPT !.ticks_detected = @ + 1,
                               !.gate.last_tick_frame_gated =
                                   IF d.gate.enabled THEN frame ELSE @,
                               !.gate.recovery_mode =
                                   IF d.gate.enabled THEN FALSE ELSE @,
                               !.last_tick_frame = d.tick_start_frame]
                [] OTHER -> [d EXCEPT !.ticks_rejected = @ + 1]
    IN [d1 EXCEPT !.state = "COOLDOWN",
                  !.cooldown_frames = MS_TO_FRAMES(TICK_COOLDOWN_MS)]

\* The switch on td->state; returns the detector and the delivered events.
StateStep(d, energy) ==
    LET frame == d.frame_count IN
    CASE d.state = "IDLE" ->
           IF energy > d.threshold_high
              /\ tick_state_is_gate_open(d, frame * FRAME_DURATION_MS)
           THEN [ td |-> [d EXCEPT !.state = "IN_TICK",
                                   !.tick_start_frame = frame,
                                   !.tick_duration_frames = 1,
                                   !.corr_peak = 0],
                  ev |-> <<>> ]
           ELSE [ td |-> d, ev |-> <<>> ]
      [] d.state = "IN_TICK" ->
           LET d1 == [d EXCEPT !.tick_duration_frames = @ + 1] IN
           IF energy < d1.threshold_low
           THEN [ td |-> PulseEnd(d1), ev |-> PulseEvents(d1) ]
           ELSE IF d1.tick_duration_frames * FRAME_DURATION_MS > MARKER_MAX_DURATION_MS
           THEN [ td |-> [d1 EXCEPT !.ticks_rejected = @ + 1,
                                    !.state = "COOLDOWN",
                                    !.cooldown_frames = MS_TO_FRAMES(TICK_COOLDOWN_MS)],
                  ev |-> <<>> ]
           ELSE [ td |-> d1, ev |-> <<>> ]
      [] OTHER ->
           [ td |-> IF d.cooldown_frames - 1 <= 0
                    THEN [d EXCEPT !.cooldown_frames = @ - 1, !.state = "IDLE"]
                    ELSE [d EXCEPT !.cooldown_frames = @ - 1],
             ev |-> <<>> ]

\* Faulty variant: the warmup phase does not return early.
tick_state_machine_run_through_warmup(d, energy) ==
    LET d0 == IF ~d.warmup_complete THEN WarmupStep(d, energy) ELSE d
    IN StateStep(AdaptNoiseFloor(GateRecoveryCheck(d0), energy), energy)

tick_state_machine_run(d, energy) ==
    IF ~d.warmup_complete
    THEN [ td |-> WarmupStep(d, energy), ev |-> <<>> ]
    ELSE StateStep(AdaptNoiseFloor(GateRecoveryCheck(d), energy), energy)

\* tick_detector_process_sample over the TICK_FFT_SIZE samples of one frame:
\* the frame's correlation runs, then the state machine, then frame_count++.
ProcessFrame(d, energy, corr) ==
    LET d1 == CorrelationRuns(d, corr, CorrRunsInFrame(d.frame_count))
        r == tick_state_machine_run(d1, energy)
    IN [ td |-> [r.td EXCEPT !.frame_count = @ + 1], ev |-> r.ev ]

(***************************************************************************)
(* Public setters                                                          *)
(***************************************************************************)
\* tick_detector_set_epoch_with_source: normalise to [0, 1000) ms.
SetEpochResult(d, epoch_ms) ==
    LET r == Fmodf(epoch_ms, SECOND_MS)
        normalized_epoch == IF r < 0 THEN r + SECOND_MS ELSE r
    IN [d EXCEPT !.gate.epoch_ms = normalized_epoch]

\* tick_detector_set_gating_enabled
SetGatingResult(d, enabled) ==
    IF enabled
    THEN [d EXCEPT !.gate.enabled = TRUE,
                   !.gate.last_tick_frame_gated = d.frame_count,
                   !.gate.recovery_mode = FALSE]
    ELSE [d EXCEPT !.gate.enabled = FALSE, !.gate.recovery_mode = FALSE]

\* tick_detector_set_threshold_mult: [1.0, 5.0], else rejected.
SetThresholdMultOk(value) == ~(value < 10 \/ value > 50)
\* Faulty variant: the thresholds are not recomputed for the new multiplier.
SetThresholdMultKeepThresholds(d, value) ==
    IF SetThresholdMultOk(value) THEN [d EXCEPT !.threshold_multiplier = value] ELSE d

SetThresholdMultResult(d, value) ==
    IF SetThresholdMultOk(value)
    THEN Thresholds([d EXCEPT !.threshold_multiplier = value])
    ELSE d

\* Faulty variant: no upper limit.
SetMinDurationNoUpper(value) == ~(value < 100)

\* tick_detector_set_min_duration_ms: [1.0, 10.0] ms, else rejected.
SetMinDurationOk(value) == ~(value < 100 \/ value > 1000)
SetMinDurationResult(d, value) ==
    IF SetMinDurationOk(value) THEN [d EXCEPT !.min_duration_ms = value] ELSE d

(***************************************************************************)
(* Minute-marker detector and BCD frequency-domain detector                *)
(*                                                                         *)
(* Both detectors integrate the per-frame bucket energy over a sliding     *)
(* window, track a baseline of the integrated energy and run a three-state *)
(* machine on it.  Their energies are counted in units of 0.000001, their  *)
(* times in units of 0.01 ms, multipliers in tenths and adaptation rates   *)
(* in 1/10000.  The accumulator is a C float: each addition and            *)
(* subtraction rounds its result to FLOAT_MANT_DIG significant bits.       *)
(***************************************************************************)
FLOAT_MANT_DIG == 24

RECURSIVE Pow2(_)
Pow2(n) == IF n = 0 THEN 1 ELSE 2 * Pow2(n - 1)

\* The spacing of the floats around the magnitude n.
RECURSIVE FloatUlp(_, _)
FloatUlp(n, step) ==
    IF n \div step < Pow2(FLOAT_MANT_DIG) THEN step ELSE FloatUlp(n, 2 * step)

\* Round to the nearest float, ties to the even mantissa.
FloatRound(x) ==
    LET n    == IF x < 0 THEN 0 - x ELSE x
        step == FloatUlp(n, 1)
        q    == n \div step
        r    == n % step
        up   == 2 * r > step \/ (2 * r = step /\ q % 2 = 1)
        m    == (IF up THEN q + 1 ELSE q) * step
    IN  IF x < 0 THEN 0 - m ELSE m

\* rate * x for a rate in 1/10000, and mult * x for a multiplier in tenths
\* (quotient and remainder are scaled separately to stay within the
\* integer range).
MulRate(x, rate) == (x \div 10000) * rate + ((x % 10000) * rate) \div 10000
MulTenths(x, mult) == (x \div 10) * mult + ((x % 10) * mult) \div 10

RECURSIVE SeqSum(_)
SeqSum(s) == IF s = <<>> THEN 0 ELSE Head(s) + SeqSum(Tail(s))

\* ---- minute-marker detector ----
\* The window length in frames.  The detector's header fixes it at about one
\* second of frames; the model keeps the window short.
MARKER_WINDOW_FRAMES == 3

MARKER_FRAME_DURATION_MS == 512           \* 256 samples at 50 kHz
MARKER_THRESHOLD_MULT == 30
MARKER_NOISE_ADAPT_RATE == 10
MARKER_COOLDOWN_MS == 3000000
MARKER_TIMEOUT_MS == 500000               \* marker_internal.h MARKER_MAX_DURATION_MS
MARKER_WARMUP_FRAMES == 200
MARKER_WARMUP_ADAPT_RATE == 200
MARKER_MIN_STARTUP_MS == 1000000
MARKER_FLASH_FRAMES == 30
MARKER_DEFAULT_MIN_DURATION_MS == 50000   \* marker_detector.h MARKER_MIN_DURATION_MS
MARKER_BASELINE_INIT == 10000
MARKER_BASELINE_MIN == 1000

MARKER_MS_TO_FRAMES(ms) ==
    (2 * ms + MARKER_FRAME_DURATION_MS) \div (2 * MARKER_FRAME_DURATION_MS)

\* marker_detector_create: the fields after construction.
MarkerDetectorCreate ==
    [ energy_history         |-> [i \in 1..MARKER_WINDOW_FRAMES |-> 0],
      history_idx            |-> 0,
      history_count          |-> 0,
      accumulated_energy     |-> 0,
      baseline_energy        |-> MARKER_BASELINE_INIT,
      threshold              |-> MulTenths(MARKER_BASELINE_INIT, MARKER_THRESHOLD_MULT),
      threshold_multiplier   |-> MARKER_THRESHOLD_MULT,
      noise_adapt_rate       |-> MARKER_NOISE_ADAPT_RATE,
      min_duration_ms        |-> MARKER_DEFAULT_MIN_DURATION_MS,
      state                  |-> "IDLE",
      warmup_complete        |-> FALSE,
      start_frame            |-> 0,
      frame_count            |-> 0,
      marker_start_frame     |-> 0,
      marker_peak_energy     |-> 0,
      marker_duration_frames |-> 0,
      cooldown_frames        |-> 0,
      markers_detected       |-> 0,
      last_marker_frame      |-> 0,
      flash_frames_remaining |-> 0 ]

\* update_accumulator: the running sum drops the energy that leaves the
\* window and adds the new one.
update_accumulator(m, energy) ==
    LET dropped == IF m.history_count >= MARKER_WINDOW_FRAMES
                   THEN FloatRound(m.accumulated_energy
                                   - m.energy_history[m.history_idx + 1])
                   ELSE m.accumulated_energy
    IN  [m EXCEPT !.energy_history[m.history_idx + 1] = energy,
                  !.accumulated_energy = FloatRound(dropped + energy),
                  !.history_idx = (m.history_idx + 1) % MARKER_WINDOW_FRAMES,
                  !.history_count = IF @ < MARKER_WINDOW_FRAMES THEN @ + 1 ELSE @]

MarkerTrack(m, rate) ==
    m.baseline_energy + MulRate(m.accumulated_energy - m.baseline_energy, rate)

MarkerWithBaseline(m, b) ==
    [m EXCEPT !.baseline_energy = b,
              !.threshold = MulTenths(b, m.threshold_multiplier)]

\* marker_detector_set_threshold_mult: [2.0, 5.0], else ignored.
MarkerSetThresholdMultOk(mult) == ~(mult < 20 \/ mult > 50)
MarkerSetThresholdMultResult(m, mult) ==
    IF MarkerSetThresholdMultOk(mult)
    THEN [m EXCEPT !.threshold_multiplier = mult,
                   !.threshold = MulTenths(m.baseline_energy, mult)]
    ELSE m

\* marker_detector_set_noise_adapt_rate: [0.0001, 0.01], else ignored.
MarkerSetNoiseAdaptRateOk(rate) == ~(rate < 1 \/ rate > 100)
MarkerSetNoiseAdaptRateResult(m, rate) ==
    IF MarkerSetNoiseAdaptRateOk(rate) THEN [m EXCEPT !.noise_adapt_rate = rate] ELSE m

\* marker_detector_set_min_duration_ms: [300.0, 700.0] ms, else ignored.
MarkerSetMinDurationOk(ms) == ~(ms < 30000 \/ ms > 70000)
MarkerSetMinDurationResult(m, ms) ==
    IF MarkerSetMinDurationOk(ms) THEN [m EXCEPT !.min_duration_ms = ms] ELSE m

\* The event handed to the marker callback when the pulse that ends in frame
\* m.frame_count is accepted.
MarkerDetectorEvent(m, duration_ms) ==
    [ marker_number        |-> m.markers_detected + 1,
      timestamp_ms         |-> m.frame_count * MARKER_FRAME_DURATION_MS,
      since_last_marker_ms |-> IF m.last_marker_frame > 0
                               THEN (m.marker_start_frame - m.last_marker_frame)
                                    * MARKER_FRAME_DURATION_MS
                               ELSE 0,
      accumulated_energy   |-> m.accumulated_energy,
      peak_energy          |-> m.marker_peak_energy,
      duration_ms          |-> duration_ms ]

\* Faulty variant: the pulse is never timed out.
MarkerNeverTimedOut(duration_ms) == FALSE

\* The timeout test of the IN_MARKER case.
MarkerTimedOut(duration_ms) == duration_ms > MARKER_TIMEOUT_MS

\* Faulty variant: the cooldown is one frame short.
MarkerCooldownFramesShort == MARKER_MS_TO_FRAMES(MARKER_COOLDOWN_MS) - 1

\* The length of the cooldown in frames.
MarkerCooldownFrames == MARKER_MS_TO_FRAMES(MARKER_COOLDOWN_MS)

\* The switch of marker_state_machine_run.
MarkerStateStep(m) ==
    CASE m.state = "IDLE" ->
           IF m.accumulated_energy > m.threshold
           THEN [md |-> [m EXCEPT !.state = "IN_MARKER",
                                  !.marker_start_frame = m.frame_count,
                                  !.marker_peak_energy = m.accumulated_energy,
                                  !.marker_duration_frames = 1],
                 ev |-> <<>>]
           ELSE [md |-> m, ev |-> <<>>]
      [] m.state = "IN_MARKER" ->
           LET m1 == [m EXCEPT !.marker_duration_frames = @ + 1,
                               !.marker_peak_energy =
                                   IF m.accumulated_energy > @
                                   THEN m.accumulated_energy ELSE @]
               duration_ms == m1.marker_duration_frames * MARKER_FRAME_DURATION_MS
               timed_out   == MarkerTimedOut(duration_ms)
               valid       == /\ duration_ms >= m.min_duration_ms
                              /\ duration_ms < MARKER_TIMEOUT_MS
               m2 == IF valid
                     THEN [m1 EXCEPT !.markers_detected = @ + 1,
                                     !.flash_frames_remaining = MARKER_FLASH_FRAMES,
                                     !.last_marker_frame = m1.marker_start_frame]
                     ELSE m1
           IN  IF m1.accumulated_energy < m1.threshold \/ timed_out
               THEN [md |-> [m2 EXCEPT !.state = "COOLDOWN",
                                       !.cooldown_frames = MarkerCooldownFrames],
                     ev |-> IF valid THEN <<MarkerDetectorEvent(m1, duration_ms)>>
                                     ELSE <<>>]
               ELSE [md |-> m1, ev |-> <<>>]
      [] m.state = "COOLDOWN" ->
           [md |-> [m EXCEPT !.cooldown_frames = @ - 1,
                             !.state = IF m.cooldown_frames - 1 <= 0
                                       THEN "IDLE" ELSE @],
            ev |-> <<>>]

\* marker_state_machine_run: one frame of bucket energy.
marker_state_machine_run(m0, energy) ==
    LET m == update_accumulator(m0, energy) IN
    IF ~m.warmup_complete
    THEN [md |-> [MarkerWithBaseline(m, MarkerTrack(m, MARKER_WARMUP_ADAPT_RATE))
                     EXCEPT !.warmup_complete =
                                (m.frame_count >= m.start_frame + MARKER_WARMUP_FRAMES)],
          ev |-> <<>>]
    ELSE IF m.frame_count * MARKER_FRAME_DURATION_MS < MARKER_MIN_STARTUP_MS
    THEN [md |-> MarkerWithBaseline(m, MarkerTrack(m, m.noise_adapt_rate)),
          ev |-> <<>>]
    ELSE IF m.state = "IDLE"
    THEN LET b == MarkerTrack(m, m.noise_adapt_rate) IN
         MarkerStateStep(MarkerWithBaseline(m,
             IF b < MARKER_BASELINE_MIN THEN MARKER_BASELINE_MIN ELSE b))
    ELSE MarkerStateStep(m)

\* marker_detector_process_sample, for the sample that completes a frame.
marker_detector_process_sample(m, energy) ==
    LET r == marker_state_machine_run(m, energy) IN
    [md |-> [r.md EXCEPT !.frame_count = @ + 1], ev |-> r.ev]

\* ---- BCD frequency-domain detector ----
\* The window length in frames: BCD_FREQ_WINDOW_MS of frames in the
\* detector's header; the model keeps the window short.
WINDOW_FRAMES == 3

\* A frame is 2048 samples at 12 kHz, 512/3 ms: FrameMs(n) is the duration of
\* n frames times BCD_FREQ_FRAME_DEN.
BCD_FREQ_FRAME_NUM == 51200
BCD_FREQ_FRAME_DEN == 3
BCD_FREQ_COOLDOWN_MS == 50000
BCD_FREQ_MAX_DURATION_MS == 200000
BCD_FREQ_WARMUP_FRAMES == 50
BCD_FREQ_WARMUP_ADAPT_RATE == 200
BCD_FREQ_MIN_STARTUP_MS == 500000
MIN_LOW_FRAMES == 3
BCD_FREQ_BASELINE_INIT == 100
BCD_FREQ_BASELINE_MIN == 100
\* Values of the detector's public header.
BCD_FREQ_THRESHOLD_MULT == 30
BCD_FREQ_NOISE_ADAPT_RATE == 10
BCD_FREQ_PULSE_MIN_MS == 10000
BCD_FREQ_PULSE_MAX_MS == 100000

FrameMs(n) == n * BCD_FREQ_FRAME_NUM

BCD_FREQ_MS_TO_FRAMES(ms) ==
    (2 * BCD_FREQ_FRAME_DEN * ms + BCD_FREQ_FRAME_NUM) \div (2 * BCD_FREQ_FRAME_NUM)

\* bcd_freq_detector_create: the fields after construction.
BcdFreqDetectorCreate ==
    [ energy_history         |-> [i \in 1..WINDOW_FRAMES |-> 0],
      history_idx            |-> 0,
      history_count          |-> 0,
      accumulated_energy     |-> 0,
      baseline_energy        |-> BCD_FREQ_BASELINE_INIT,
      threshold              |-> MulTenths(BCD_FREQ_BASELINE_INIT, BCD_FREQ_THRESHOLD_MULT),
      state                  |-> "IDLE",
      warmup_complete        |-> FALSE,
      start_frame            |-> 0,
      frame_count            |-> 0,
      pulse_start_frame      |-> 0,
      pulse_peak_energy      |-> 0,
      pulse_duration_frames  |-> 0,
      consecutive_low_frames |-> 0,
      cooldown_frames        |-> 0,
      pulses_detected        |-> 0,
      pulses_rejected        |-> 0,
      last_pulse_frame       |-> 0 ]

bcd_freq_update_accumulator(f, energy) ==
    LET dropped == IF f.history_count >= WINDOW_FRAMES
                   THEN FloatRound(f.accumulated_energy
                                   - f.energy_history[f.history_idx + 1])
                   ELSE f.accumulated_energy
    IN  [f EXCEPT !.energy_history[f.history_idx + 1] = energy,
                  !.accumulated_energy = FloatRound(dropped + energy),
                  !.history_idx = (f.history_idx + 1) % WINDOW_FRAMES,
                  !.history_count = IF @ < WINDOW_FRAMES THEN @ + 1 ELSE @]

BcdFreqTrack(f, rate) ==
    f.baseline_energy + MulRate(f.accumulated_energy - f.baseline_energy, rate)

BcdFreqWithBaseline(f, b) ==
    [f EXCEPT !.baseline_energy = b,
              !.threshold = MulTenths(b, BCD_FREQ_THRESHOLD_MULT)]

\* The event handed to the pulse callback (times times BCD_FREQ_FRAME_DEN).
BcdFreqEvent(f) ==
    [ timestamp_ms3      |-> FrameMs(f.pulse_start_frame),
      duration_ms3       |-> FrameMs(f.pulse_duration_frames),
      accumulated_energy |-> f.pulse_peak_energy,
      baseline_energy    |-> f.baseline_energy ]

\* The switch of bcd_freq_run_state_machine.
\* Faulty variant: the pulse is never timed out.
BcdFreqNeverTimedOut(duration3) == FALSE

\* The timeout test of the IN_PULSE case, on BCD_FREQ_FRAME_DEN times the
\* duration.
BcdFreqTimedOut(duration3) ==
    duration3 > BCD_FREQ_FRAME_DEN * BCD_FREQ_MAX_DURATION_MS

BcdFreqStateStep(f) ==
    CASE f.state = "IDLE" ->
           IF f.accumulated_energy > f.threshold
           THEN [fd |-> [f EXCEPT !.state = "IN_PULSE",
                                  !.pulse_start_frame = f.frame_count,
                                  !.pulse_peak_energy = f.accumulated_energy,
                                  !.pulse_duration_frames = 1,
                                  !.consecutive_low_frames = 0],
                 ev |-> <<>>]
           ELSE [fd |-> f, ev |-> <<>>]
      [] f.state = "IN_PULSE" ->
           LET f1 == [f EXCEPT !.pulse_duration_frames = @ + 1,
                               !.pulse_peak_energy =
                                   IF f.accumulated_energy > @
                                   THEN f.accumulated_energy ELSE @,
                               !.consecutive_low_frames =
                                   IF f.accumulated_energy < f.threshold
                                   THEN @ + 1 ELSE 0]
               duration3 == FrameMs(f1.pulse_duration_frames)
               timed_out == BcdFreqTimedOut(duration3)
               valid     == /\ duration3 >= BCD_FREQ_FRAME_DEN * BCD_FREQ_PULSE_MIN_MS
                            /\ duration3 <= BCD_FREQ_FRAME_DEN * BCD_FREQ_PULSE_MAX_MS
               f2 == IF valid
                     THEN [f1 EXCEPT !.pulses_detected = @ + 1,
                                     !.last_pulse_frame = f1.pulse_start_frame]
                     ELSE IF timed_out
                     THEN [BcdFreqWithBaseline(f1, f1.accumulated_energy)
                              EXCEPT !.pulses_rejected = @ + 1]
                     ELSE [f1 EXCEPT !.pulses_rejected = @ + 1]
           IN  IF f1.consecutive_low_frames >= MIN_LOW_FRAMES \/ timed_out
               THEN [fd |-> [f2 EXCEPT !.state = "COOLDOWN",
                                       !.cooldown_frames =
                                           BCD_FREQ_MS_TO_FRAMES(BCD_FREQ_COOLDOWN_MS)],
                     ev |-> IF valid THEN <<BcdFreqEvent(f1)>> ELSE <<>>]
               ELSE [fd |-> f1, ev |-> <<>>]
      [] f.state = "COOLDOWN" ->
           [fd |-> [f EXCEPT !.cooldown_frames = @ - 1,
                             !.state = IF f.cooldown_frames - 1 <= 0
                                       THEN "IDLE" ELSE @],
            ev |-> <<>>]

\* bcd_freq_run_state_machine: one frame of bucket energy.
bcd_freq_run_state_machine(f0, energy) ==
    LET f == bcd_freq_update_accumulator(f0, energy) IN
    IF ~f.warmup_complete
    THEN [fd |-> [BcdFreqWithBaseline(f, BcdFreqTrack(f, BCD_FREQ_WARMUP_ADAPT_RATE))
                     EXCEPT !.warmup_complete =
                                (f.frame_count >= f.start_frame + BCD_FREQ_WARMUP_FRAMES)],
          ev |-> <<>>]
    ELSE IF FrameMs(f.frame_count) < BCD_FREQ_FRAME_DEN * BCD_FREQ_MIN_STARTUP_MS
    THEN [fd |-> BcdFreqWithBaseline(f, BcdFreqTrack(f, BCD_FREQ_NOISE_ADAPT_RATE)),
          ev |-> <<>>]
    ELSE IF f.state = "IDLE"
    THEN LET b == BcdFreqTrack(f, BCD_FREQ_NOISE_ADAPT_RATE) IN
         BcdFreqStateStep(BcdFreqWithBaseline(f,
             IF b < BCD_FREQ_BASELINE_MIN THEN BCD_FREQ_BASELINE_MIN ELSE b))
    ELSE BcdFreqStateStep(f)

\* bcd_freq_detector_process_sample, for the sample that completes a frame.
bcd_freq_detector_process_sample(f, energy) ==
    LET r == bcd_freq_run_state_machine(f, energy) IN
    [fd |-> [r.fd EXCEPT !.frame_count = @ + 1], ev |-> r.ev]

(***************************************************************************)
(* BCD correlator: the symbol windower                                     *)
(*                                                                         *)
(* Times are counted in milliseconds, energies in units of 0.0001,         *)
(* confidences in percent.  An estimated pulse duration is counted in      *)
(* 1/DURATION_SCALE ms, so that the averages the estimate takes stay       *)
(* integers.                                                               *)
(***************************************************************************)
WINDOW_DURATION_MS == 1000
MINUTE_MS == 60000
MIN_EVENTS_FOR_SYMBOL == 2
ENERGY_THRESHOLD_LOW == 10
BCD_SYMBOL_NONE_MAX_MS == 100
BCD_SYMBOL_ZERO_MAX_MS == 350
BCD_SYMBOL_ONE_MAX_MS == 650
BCD_SYMBOL_MARKER_MAX_MS == 900
GOOD_INTERVAL_MIN_MS == 900
GOOD_INTERVAL_MAX_MS == 1100
GOOD_INTERVALS_FOR_TRACKING == 3
DURATION_SCALE == 24

VALID_P_POSITIONS == {0, 9, 19, 29, 39, 49, 59}

\* bcd_correlator_create: the fields after construction (calloc zeroes them).
BcdCorrelatorCreate ==
    [ window_open       |-> FALSE,
      current_second    |-> 0,
      window_start_ms   |-> 0,
      window_anchor_ms  |-> 0,
      time_energy_sum   |-> 0,
      time_duration_sum |-> 0,
      time_event_count  |-> 0,
      time_first_ms     |-> 0,
      time_last_ms      |-> 0,
      freq_energy_sum   |-> 0,
      freq_duration_sum |-> 0,
      freq_event_count  |-> 0,
      freq_first_ms     |-> 0,
      freq_last_ms      |-> 0,
      last_symbol_ms    |-> 0,
      symbol_count      |-> 0,
      good_intervals    |-> 0,
      state             |-> "ACQUIRING" ]

\* bcd_window_get_minute_anchor: the anchor the sync detector reports, -1
\* when no sync source is linked (state "NO_SOURCE") or it is not LOCKED.
\* Faulty variant: the anchor is used whatever the sync detector's state.
BcdWindowAnchorUngated(sync) == sync.last_marker_ms

bcd_window_get_minute_anchor(sync) ==
    IF sync.state = "NO_SOURCE" THEN 0 - 1
    ELSE IF sync.state # "LOCKED" THEN 0 - 1
    ELSE sync.last_marker_ms

bcd_window_get_second_for_timestamp(timestamp_ms, anchor_ms) ==
    IF anchor_ms < 0 THEN 0 - 1
    ELSE LET offset_ms == (timestamp_ms - anchor_ms) % MINUTE_MS
             second    == offset_ms \div WINDOW_DURATION_MS
         IN  IF second < 0 THEN 0 ELSE IF second > 59 THEN 59 ELSE second

bcd_window_get_start(anchor_ms, second) == anchor_ms + second * WINDOW_DURATION_MS

\* Faulty variant: a newly opened window keeps the totals of the last one.
BcdWindowOpenKeepsTotals(c, second, anchor_ms) ==
    [c EXCEPT !.window_open = TRUE,
              !.current_second = second,
              !.window_start_ms = bcd_window_get_start(anchor_ms, second),
              !.window_anchor_ms = anchor_ms]

bcd_window_open(c, second, anchor_ms) ==
    [c EXCEPT !.window_open = TRUE,
              !.current_second = second,
              !.window_start_ms = bcd_window_get_start(anchor_ms, second),
              !.window_anchor_ms = anchor_ms,
              !.time_energy_sum = 0, !.time_duration_sum = 0,
              !.time_event_count = 0, !.time_first_ms = 0, !.time_last_ms = 0,
              !.freq_energy_sum = 0, !.freq_duration_sum = 0,
              !.freq_event_count = 0, !.freq_first_ms = 0, !.freq_last_ms = 0]

bcd_symbol_is_valid_p_position(second) == second \in VALID_P_POSITIONS

\* The classification without the position gate.
ClassifyDurationUngated(duration, second) ==
    IF duration < BCD_SYMBOL_NONE_MAX_MS * DURATION_SCALE THEN "NONE"
    ELSE IF duration <= BCD_SYMBOL_ZERO_MAX_MS * DURATION_SCALE THEN "ZERO"
    ELSE IF duration <= BCD_SYMBOL_ONE_MAX_MS * DURATION_SCALE THEN "ONE"
    ELSE "P_MARKER"

bcd_symbol_classify_duration(duration, second) ==
    IF duration < BCD_SYMBOL_NONE_MAX_MS * DURATION_SCALE THEN "NONE"
    ELSE IF duration <= BCD_SYMBOL_ZERO_MAX_MS * DURATION_SCALE THEN "ZERO"
    ELSE IF duration <= BCD_SYMBOL_ONE_MAX_MS * DURATION_SCALE THEN "ONE"
    ELSE IF duration <= BCD_SYMBOL_MARKER_MAX_MS * DURATION_SCALE
    THEN IF bcd_symbol_is_valid_p_position(second) THEN "P_MARKER" ELSE "ONE"
    ELSE IF bcd_symbol_is_valid_p_position(second) THEN "P_MARKER" ELSE "ONE"

\* bcd_window_estimate_pulse_duration, in 1/DURATION_SCALE ms.
bcd_window_estimate_pulse_duration(c) ==
    LET time_span == IF c.time_event_count >= 2 THEN c.time_last_ms - c.time_first_ms
                     ELSE IF c.time_event_count = 1 THEN c.time_duration_sum
                     ELSE 0
        freq_span == IF c.freq_event_count >= 2 THEN c.freq_last_ms - c.freq_first_ms
                     ELSE IF c.freq_event_count = 1 THEN c.freq_duration_sum
                     ELSE 0
        time_avg  == IF c.time_event_count > 0
                     THEN (DURATION_SCALE * c.time_duration_sum) \div c.time_event_count
                     ELSE 0
        freq_avg  == IF c.freq_event_count > 0
                     THEN (DURATION_SCALE * c.freq_duration_sum) \div c.freq_event_count
                     ELSE 0
        count     == (IF c.time_event_count > 0 THEN 1 ELSE 0)
                     + (IF c.freq_event_count > 0 THEN 1 ELSE 0)
    IN  IF time_span > 0 /\ freq_span > 0
        THEN (DURATION_SCALE * (time_span + freq_span)) \div 2
        ELSE IF time_span > 0 THEN DURATION_SCALE * time_span
        ELSE IF freq_span > 0 THEN DURATION_SCALE * freq_span
        ELSE IF count > 0 THEN (time_avg + freq_avg) \div count
        ELSE 0

IsGoodInterval(interval_ms) ==
    interval_ms >= GOOD_INTERVAL_MIN_MS /\ interval_ms <= GOOD_INTERVAL_MAX_MS

\* The state update of bcd_window_close, made before the symbol is counted.
CloseState(c, good_intervals) ==
    IF good_intervals >= GOOD_INTERVALS_FOR_TRACKING THEN "TRACKING"
    ELSE IF c.symbol_count >= 1 THEN "TENTATIVE"
    ELSE c.state

\* bcd_window_close: classify the window, hand the symbol to the callback.
\* The event also records the second and the anchor of its window.
bcd_window_close(c) ==
    IF ~c.window_open THEN [corr |-> c, ev |-> <<>>]
    ELSE
    LET total_events == c.time_event_count + c.freq_event_count
        total_energy == c.time_energy_sum + c.freq_energy_sum
        both         == c.time_event_count > 0 /\ c.freq_event_count > 0
        source       == IF both THEN "BOTH"
                        ELSE IF c.time_event_count > 0 THEN "TIME"
                        ELSE IF c.freq_event_count > 0 THEN "FREQ"
                        ELSE "NONE"
        confidence   == IF both THEN 100 ELSE IF total_events > 0 THEN 60 ELSE 0
        duration     == bcd_window_estimate_pulse_duration(c)
        sure         == /\ total_events >= MIN_EVENTS_FOR_SYMBOL
                        /\ total_energy > ENERGY_THRESHOLD_LOW
        symbol       == IF sure \/ total_events > 0
                        THEN bcd_symbol_classify_duration(duration, c.current_second)
                        ELSE "NONE"
        symbol_timestamp_ms == c.window_start_ms + WINDOW_DURATION_MS \div 2
        interval_ms  == IF c.last_symbol_ms > 0
                        THEN symbol_timestamp_ms - c.last_symbol_ms ELSE 0
        good         == IF c.last_symbol_ms > 0 /\ IsGoodInterval(interval_ms)
                        THEN c.good_intervals + 1 ELSE c.good_intervals
    IN  [corr |-> [c EXCEPT !.good_intervals = good,
                            !.state = CloseState(c, good),
                            !.last_symbol_ms = symbol_timestamp_ms,
                            !.symbol_count = @ + 1,
                            !.window_open = FALSE],
         ev   |-> << [ symbol       |-> symbol,
                       timestamp_ms |-> symbol_timestamp_ms,
                       duration     |-> duration,
                       confidence   |-> IF sure THEN confidence ELSE confidence \div 2,
                       source       |-> source,
                       second       |-> c.current_second,
                       anchor_ms    |-> c.window_anchor_ms,
                       interval_ms  |-> interval_ms ] >>]

\* close_window, the static routine of bcd_correlator.c that
\* bcd_correlator_destroy calls: as bcd_window_close, but the callback gets
\* the symbol only when it is not NONE.
close_window(c) ==
    IF ~c.window_open THEN [corr |-> c, ev |-> <<>>]
    ELSE
    LET total_events == c.time_event_count + c.freq_event_count
        total_energy == c.time_energy_sum + c.freq_energy_sum
        both         == c.time_event_count > 0 /\ c.freq_event_count > 0
        source       == IF both THEN "BOTH"
                        ELSE IF c.time_event_count > 0 THEN "TIME"
                        ELSE IF c.freq_event_count > 0 THEN "FREQ"
                        ELSE "NONE"
        confidence   == IF both THEN 100 ELSE IF total_events > 0 THEN 60 ELSE 0
        duration     == bcd_window_estimate_pulse_duration(c)
        sure         == /\ total_events >= MIN_EVENTS_FOR_SYMBOL
                        /\ total_energy > ENERGY_THRESHOLD_LOW
        symbol       == IF sure \/ total_events > 0
                        THEN bcd_symbol_classify_duration(duration, c.current_second)
                        ELSE "NONE"
        symbol_timestamp_ms == c.window_start_ms + WINDOW_DURATION_MS \div 2
        interval_ms  == IF c.last_symbol_ms > 0
                        THEN symbol_timestamp_ms - c.last_symbol_ms ELSE 0
        good         == IF c.last_symbol_ms > 0 /\ IsGoodInterval(interval_ms)
                        THEN c.good_intervals + 1 ELSE c.good_intervals
    IN  [corr |-> [c EXCEPT !.good_intervals = good,
                            !.state = CloseState(c, good),
                            !.last_symbol_ms = symbol_timestamp_ms,
                            !.symbol_count = @ + 1,
                            !.window_open = FALSE],
         ev   |-> IF symbol = "NONE" THEN <<>>
                  ELSE << [ symbol       |-> symbol,
                            timestamp_ms |-> symbol_timestamp_ms,
                            duration     |-> duration,
                            confidence   |-> IF sure THEN confidence
                                             ELSE confidence \div 2,
                            source       |-> source,
                            second       |-> c.current_second,
                            anchor_ms    |-> c.window_anchor_ms,
                            interval_ms  |-> interval_ms ] >>]

\* bcd_correlator_destroy: closes an open window with close_window.
bcd_correlator_destroy(c) == IF c.window_open THEN close_window(c)
                             ELSE [corr |-> c, ev |-> <<>>]

bcd_window_check_transition(c, timestamp_ms, sync) ==
    LET anchor_ms    == bcd_window_get_minute_anchor(sync)
        event_second == bcd_window_get_second_for_timestamp(timestamp_ms, anchor_ms)
        closed       == bcd_window_close(c)
    IN  IF anchor_ms < 0 THEN closed
        ELSE IF event_second < 0 THEN [corr |-> c, ev |-> <<>>]
        ELSE IF ~c.window_open
        THEN [corr |-> bcd_window_open(c, event_second, anchor_ms), ev |-> <<>>]
        ELSE IF anchor_ms # c.window_anchor_ms \/ event_second # c.current_second
        THEN [corr |-> bcd_window_open(closed.corr, event_second, anchor_ms),
              ev   |-> closed.ev]
        ELSE [corr |-> c, ev |-> <<>>]

bcd_correlator_time_event(c0, timestamp_ms, duration_ms, peak_energy, sync) ==
    LET r == bcd_window_check_transition(c0, timestamp_ms, sync)
        c == r.corr
    IN  IF ~c.window_open THEN r
        ELSE [corr |-> [c EXCEPT !.time_first_ms = IF c.time_event_count = 0
                                                   THEN timestamp_ms ELSE @,
                                 !.time_last_ms = timestamp_ms,
                                 !.time_energy_sum = @ + peak_energy,
                                 !.time_duration_sum = @ + duration_ms,
                                 !.time_event_count = @ + 1],
              ev   |-> r.ev]

bcd_correlator_freq_event(c0, timestamp_ms, duration_ms, accum_energy, sync) ==
    LET r == bcd_window_check_transition(c0, timestamp_ms, sync)
        c == r.corr
    IN  IF ~c.window_open THEN r
        ELSE [corr |-> [c EXCEPT !.freq_first_ms = IF c.freq_event_count = 0
                                                   THEN timestamp_ms ELSE @,
                                 !.freq_last_ms = timestamp_ms,
                                 !.freq_energy_sum = @ + accum_energy,
                                 !.freq_duration_sum = @ + duration_ms,
                                 !.freq_event_count = @ + 1],
              ev   |-> r.ev]

(***************************************************************************)
(* Inputs                                                                  *)
(***************************************************************************)
\* One frame of input: the FFT bucket energy of the frame and the magnitude
\* the matched filter reports during it.  The input stream is a pulse train:
\* energy may rise only on a frame of `starts`, a pulse lasts a number of
\* frames of `lengths`, and it either matches the tick template (a large
\* correlation magnitude in each of its frames) or does not.
QuietInput == [energy |-> 0, corr |-> 0]
PulseCorrs == { 0, 100000 }
PulseInput(c) == [energy |-> 1000, corr |-> c]

FrameInputs(starts, lengths) ==
    IF pulse.age = 0
    THEN {QuietInput} \cup
         (IF td.frame_count \in starts THEN { PulseInput(c) : c \in PulseCorrs } ELSE {})
    ELSE (IF pulse.age \in lengths THEN {QuietInput} ELSE {})
         \cup (IF \E l \in lengths : l > pulse.age THEN {PulseInput(pulse.corr)} ELSE {})

EpochInputs == { 30000, 0 - 70000, 130000 }
ThresholdMultInputs == { 5, 10, 50 }
MinDurationInputs == { 50, 1000 }

(***************************************************************************)
(* Actions: one per call of the public interface                           *)
(***************************************************************************)
TickTypes(ev) == { ev[i].type : i \in 1..Len(ev) }
TickTimes(ev) == { ev[i].timestamp_ms : i \in { j \in 1..Len(ev) : ev[j].type = "TICK" } }
SetMax(S, dflt) == IF S = {} THEN dflt ELSE CHOOSE x \in S : \A y \in S : y <= x

\* The tick detector is fed the samples of one frame, whose bucket energy and
\* matched-filter magnitude are those of `in`.
TickFed(in) ==
    LET r == ProcessFrame(td, in.energy, in.corr) IN
    /\ td' = r.td
    /\ events' = r.ev
    /\ pulse' = IF in = QuietInput
                THEN [age |-> 0, corr |-> 0]
                ELSE [age |-> pulse.age + 1, corr |-> in.corr]
    /\ pulse_events' = IF td.state = "IDLE" /\ r.td.state = "IN_TICK"
                       THEN {}
                       ELSE pulse_events \cup TickTypes(r.ev)
    /\ gate_ref' = IF "TICK" \in TickTypes(r.ev) THEN td.frame_count ELSE gate_ref
    /\ bypassed' = IF td.state = "IDLE" /\ r.td.state = "IN_TICK"
                   THEN r.td.gate.recovery_mode
                   ELSE bypassed
    /\ silent' = (silent /\ in.energy = 0)
    /\ prev_tick_ts' = SetMax(TickTimes(events) \cup {prev_tick_ts}, prev_tick_ts)
    /\ last_op' = "frame"

\* The caller feeds the samples of one frame.
Frame(starts, lengths, maxFrame) ==
    /\ td.frame_count < maxFrame
    /\ \E in \in FrameInputs(starts, lengths) : TickFed(in)
    /\ UNCHANGED <<api_calls, level, markerVars, bcdFreqVars, corrVars,
                   laterVars>>

\* The caller feeds the samples of one frame of a piecewise-constant input:
\* the bucket energy may change only on a frame of `changes`, to an energy
\* of `energies`; the matched filter reports nothing.
EnergyFrame(changes, energies, maxFrame) ==
    /\ td.frame_count < maxFrame
    /\ \E e \in (IF td.frame_count \in changes THEN energies ELSE {level}) :
         LET r == ProcessFrame(td, e, 0) IN
         /\ td' = r.td
         /\ events' = r.ev
         /\ level' = e
         /\ pulse' = IF e = 0
                     THEN [age |-> 0, corr |-> 0]
                     ELSE [age |-> pulse.age + 1, corr |-> 0]
         /\ pulse_events' = IF td.state = "IDLE" /\ r.td.state = "IN_TICK"
                            THEN {}
                            ELSE pulse_events \cup TickTypes(r.ev)
         /\ gate_ref' = IF "TICK" \in TickTypes(r.ev) THEN td.frame_count ELSE gate_ref
         /\ bypassed' = IF td.state = "IDLE" /\ r.td.state = "IN_TICK"
                        THEN r.td.gate.recovery_mode
                        ELSE bypassed
         /\ silent' = (silent /\ e = 0)
    /\ prev_tick_ts' = SetMax(TickTimes(events) \cup {prev_tick_ts}, prev_tick_ts)
    /\ last_op' = "frame"
    /\ UNCHANGED <<api_calls, markerVars, bcdFreqVars, corrVars,
                   laterVars>>

\* The caller makes a setter call between two frames, at a frame of `at`.
SetterFrame(d, op, at, maxCalls) ==
    /\ api_calls < maxCalls
    /\ td.frame_count \in at
    /\ td' = d
    /\ events' = <<>>
    /\ last_op' = op
    /\ api_calls' = api_calls + 1
    /\ prev_tick_ts' = SetMax(TickTimes(events) \cup {prev_tick_ts}, prev_tick_ts)
    /\ UNCHANGED <<pulse, pulse_events, bypassed, level, silent, markerVars, bcdFreqVars, corrVars,
                   bcdTimeVars, syncVars, mgrVars, fftVars, ctorVars>>

SetEpoch(at, maxCalls) ==
    \E e \in EpochInputs :
        /\ SetterFrame(SetEpochResult(td, e), "set_epoch", at, maxCalls)
        /\ UNCHANGED <<gate_ref, callVars>>

SetGating(at, maxCalls) ==
    \E b \in BOOLEAN :
        /\ SetterFrame(SetGatingResult(td, b), "set_gating", at, maxCalls)
        /\ gate_ref' = IF b THEN td.frame_count ELSE gate_ref
        /\ UNCHANGED callVars

\* What a setter call was and what the caller got back.
SetterCall(fn, value, ret) == [fn |-> fn, value |-> value, ret |-> ret]
BoolReturn(ok) == IF ok THEN "true" ELSE "false"

\* tick_detector_set_threshold_mult, called with a value of `values`.
SetThresholdMultOf(values, at, maxCalls) ==
    \E v \in values :
        /\ SetterFrame(SetThresholdMultResult(td, v),
                       IF SetThresholdMultOk(v) THEN "set_threshold_mult" ELSE "rejected",
                       at, maxCalls)
        /\ call' = SetterCall("tick_detector_set_threshold_mult", v,
                              BoolReturn(SetThresholdMultOk(v)))
        /\ UNCHANGED gate_ref

SetThresholdMult(at, maxCalls) ==
    SetThresholdMultOf(ThresholdMultInputs, at, maxCalls)

\* tick_detector_set_min_duration_ms, called with a value of `values`.
SetMinDurationOf(values, at, maxCalls) ==
    \E v \in values :
        /\ SetterFrame(SetMinDurationResult(td, v),
                       IF SetMinDurationOk(v) THEN "set_min_duration" ELSE "rejected",
                       at, maxCalls)
        /\ call' = SetterCall("tick_detector_set_min_duration_ms", v,
                              BoolReturn(SetMinDurationOk(v)))
        /\ UNCHANGED gate_ref

SetMinDuration(at, maxCalls) ==
    SetMinDurationOf(MinDurationInputs, at, maxCalls)

\* The caller feeds the marker detector the samples of one frame of a
\* piecewise-constant input.
MarkerFed(e) ==
    LET r == marker_detector_process_sample(md, e) IN
    /\ md' = r.md
    /\ md_events' = r.ev
    /\ md_level' = e
    /\ md_since' = IF r.md.state # md.state THEN md.frame_count ELSE md_since
    /\ md_prev_event_ms' = IF md_events # <<>> THEN md_events[1].timestamp_ms
                                            ELSE md_prev_event_ms

MarkerFrame(changes, energies, maxFrame) ==
    /\ md.frame_count < maxFrame
    /\ \E e \in (IF md.frame_count \in changes THEN energies ELSE {md_level}) :
         MarkerFed(e)
    /\ UNCHANGED <<md_left, tickVars, bcdFreqVars, corrVars,
                   laterVars>>

\* The caller calls a marker detector setter between two frames, at a frame
\* of `at`.  The three setters return nothing.
MarkerSetterCall(fn, result, value, at) ==
    /\ md.frame_count \in at
    /\ md' = result
    /\ call' = SetterCall(fn, value, "void")
    /\ md_events' = <<>>
    /\ md_prev_event_ms' = IF md_events # <<>> THEN md_events[1].timestamp_ms
                                            ELSE md_prev_event_ms
    /\ UNCHANGED <<md_level, md_left, md_since, tickVars, bcdFreqVars, corrVars,
                   bcdTimeVars, syncVars, mgrVars, fftVars, ctorVars>>

MarkerSetThresholdMult(values, at) ==
    \E v \in values :
        MarkerSetterCall("marker_detector_set_threshold_mult",
                         MarkerSetThresholdMultResult(md, v), v, at)

MarkerSetNoiseAdaptRate(values, at) ==
    \E v \in values :
        MarkerSetterCall("marker_detector_set_noise_adapt_rate",
                         MarkerSetNoiseAdaptRateResult(md, v), v, at)

MarkerSetMinDuration(values, at) ==
    \E v \in values :
        MarkerSetterCall("marker_detector_set_min_duration_ms",
                         MarkerSetMinDurationResult(md, v), v, at)

\* The caller feeds the marker detector the samples of one frame of a pulse
\* train: the energy is `quiet` outside the pulses and `loud` inside; a pulse
\* may start on a frame of `starts` and lasts a number of frames of `lengths`.
MarkerPulseFrame(starts, lengths, quiet, loud, maxFrame) ==
    /\ md.frame_count < maxFrame
    /\ \E n \in (IF md_left > 0 THEN {md_left}
                  ELSE IF md.frame_count \in starts THEN lengths \cup {0}
                  ELSE {0}) :
         /\ MarkerFed(IF n > 0 THEN loud ELSE quiet)
         /\ md_left' = IF n > 0 THEN n - 1 ELSE 0
    /\ UNCHANGED <<tickVars, bcdFreqVars, corrVars,
                   laterVars>>

\* The caller feeds the BCD frequency-domain detector the samples of one
\* frame of a piecewise-constant input.
BcdFreqFrame(changes, energies, maxFrame) ==
    /\ fd.frame_count < maxFrame
    /\ \E e \in (IF fd.frame_count \in changes THEN energies ELSE {fd_level}) :
         LET r == bcd_freq_detector_process_sample(fd, e) IN
         /\ fd' = r.fd
         /\ fd_events' = r.ev
         /\ fd_level' = e
    /\ UNCHANGED <<tickVars, markerVars, corrVars,
                   laterVars>>

(***************************************************************************)
(* The BCD time-domain detector.  Energies are in units of 0.000001, times *)
(* in units of 0.01 ms, adaptation rates in 1/10000, multipliers in        *)
(* tenths.  The detector's public header is not among the repository       *)
(* files: the frame length, the threshold multiplier, the hysteresis ratio *)
(* and the pulse bounds are taken from the specification.  The event's     *)
(* snr_db (a logarithm) is left out.                                       *)
(***************************************************************************)
BCD_TIME_FRAME_DURATION_MS == 512
BCD_TIME_THRESHOLD_MULT == 20
BCD_TIME_HYSTERESIS_RATIO == 7
BCD_TIME_PULSE_MIN_MS == 10000
BCD_TIME_PULSE_MAX_MS == 90000
BCD_TIME_COOLDOWN_MS == 20000
BCD_TIME_NOISE_ADAPT_DOWN == 20
BCD_TIME_NOISE_ADAPT_UP == 2
BCD_TIME_WARMUP_ADAPT_RATE == 500
BCD_TIME_WARMUP_FRAMES == 50
BCD_TIME_NOISE_FLOOR_INIT == 100
BCD_TIME_NOISE_FLOOR_MIN == 100
BCD_TIME_NOISE_FLOOR_MAX == 5000000

BCD_TIME_MS_TO_FRAMES(ms) ==
    (2 * ms + BCD_TIME_FRAME_DURATION_MS) \div (2 * BCD_TIME_FRAME_DURATION_MS)

\* bcd_time_detector_create: calloc zeroes what is not set.
BcdTimeDetectorCreate ==
    [ state                  |-> "IDLE",
      noise_floor            |-> BCD_TIME_NOISE_FLOOR_INIT,
      threshold_high         |-> MulTenths(BCD_TIME_NOISE_FLOOR_INIT,
                                           BCD_TIME_THRESHOLD_MULT),
      threshold_low          |-> MulTenths(MulTenths(BCD_TIME_NOISE_FLOOR_INIT,
                                                     BCD_TIME_THRESHOLD_MULT),
                                           BCD_TIME_HYSTERESIS_RATIO),
      current_energy         |-> 0,
      pulse_start_frame      |-> 0,
      pulse_peak_energy      |-> 0,
      pulse_duration_frames  |-> 0,
      cooldown_frames        |-> 0,
      consecutive_low_frames |-> 0,
      pulses_detected        |-> 0,
      pulses_rejected        |-> 0,
      last_pulse_frame       |-> 0,
      frame_count            |-> 0,
      start_frame            |-> 0,
      warmup_complete        |-> FALSE,
      detection_enabled      |-> TRUE ]

BcdTimeWithNoiseFloor(t, nf) ==
    [t EXCEPT !.noise_floor = nf,
              !.threshold_high = MulTenths(nf, BCD_TIME_THRESHOLD_MULT),
              !.threshold_low = MulTenths(MulTenths(nf, BCD_TIME_THRESHOLD_MULT),
                                          BCD_TIME_HYSTERESIS_RATIO)]

BcdTimeTrack(t, energy, rate) ==
    t.noise_floor + MulRate(energy - t.noise_floor, rate)

\* The adaptive noise floor of bcd_time_run_state_machine.
BcdTimeAdapt(t, energy) ==
    IF t.state = "IDLE" /\ energy < t.threshold_high
    THEN LET nf == BcdTimeTrack(t, energy,
                                IF energy < t.noise_floor
                                THEN BCD_TIME_NOISE_ADAPT_DOWN
                                ELSE BCD_TIME_NOISE_ADAPT_UP)
             lo == IF nf < BCD_TIME_NOISE_FLOOR_MIN
                   THEN BCD_TIME_NOISE_FLOOR_MIN ELSE nf
             hi == IF lo > BCD_TIME_NOISE_FLOOR_MAX
                   THEN BCD_TIME_NOISE_FLOOR_MAX ELSE lo
         IN  BcdTimeWithNoiseFloor(t, hi)
    ELSE t

BcdTimePulseEvent(t, duration_ms) ==
    [ timestamp_ms |-> t.pulse_start_frame * BCD_TIME_FRAME_DURATION_MS,
      duration_ms  |-> duration_ms,
      peak_energy  |-> t.pulse_peak_energy,
      noise_floor  |-> t.noise_floor ]

\* Faulty variant: the pulse is closed one low frame early.
BcdTimePulseEndedEarly(t) == t.consecutive_low_frames >= MIN_LOW_FRAMES - 1

\* The debounce test of the IN_PULSE case.
BcdTimePulseEnded(t) == t.consecutive_low_frames >= MIN_LOW_FRAMES

\* The switch of bcd_time_run_state_machine.
BcdTimeStateStep(t, energy) ==
    CASE t.state = "IDLE" ->
           [bt |-> IF energy > t.threshold_high
                   THEN [t EXCEPT !.state = "IN_PULSE",
                                  !.pulse_start_frame = t.frame_count,
                                  !.pulse_peak_energy = energy,
                                  !.pulse_duration_frames = 1,
                                  !.consecutive_low_frames = 0]
                   ELSE t,
            ev |-> <<>>]
      [] t.state = "IN_PULSE" ->
           LET t1 == [t EXCEPT !.pulse_duration_frames = @ + 1,
                               !.pulse_peak_energy =
                                   IF energy > @ THEN energy ELSE @,
                               !.consecutive_low_frames =
                                   IF energy < t.threshold_low THEN @ + 1 ELSE 0]
               duration_ms == t1.pulse_duration_frames * BCD_TIME_FRAME_DURATION_MS
               valid == /\ duration_ms >= BCD_TIME_PULSE_MIN_MS
                        /\ duration_ms <= BCD_TIME_PULSE_MAX_MS
           IN  IF BcdTimePulseEnded(t1)
               THEN [bt |-> [t1 EXCEPT
                               !.pulses_detected = IF valid THEN @ + 1 ELSE @,
                               !.pulses_rejected = IF valid THEN @ ELSE @ + 1,
                               !.last_pulse_frame =
                                   IF valid THEN t1.pulse_start_frame ELSE @,
                               !.state = "COOLDOWN",
                               !.cooldown_frames =
                                   BCD_TIME_MS_TO_FRAMES(BCD_TIME_COOLDOWN_MS)],
                     ev |-> IF valid THEN <<BcdTimePulseEvent(t1, duration_ms)>>
                                     ELSE <<>>]
               ELSE [bt |-> t1, ev |-> <<>>]
      [] t.state = "COOLDOWN" ->
           [bt |-> [t EXCEPT !.cooldown_frames = @ - 1,
                             !.state = IF t.cooldown_frames - 1 <= 0
                                       THEN "IDLE" ELSE @],
            ev |-> <<>>]

\* bcd_time_run_state_machine: one frame of bucket energy.
bcd_time_run_state_machine(t) ==
    LET energy == t.current_energy IN
    IF ~t.warmup_complete
    THEN LET nf == BcdTimeTrack(t, energy, BCD_TIME_WARMUP_ADAPT_RATE)
             t1 == BcdTimeWithNoiseFloor(t, IF nf < BCD_TIME_NOISE_FLOOR_MIN
                                            THEN BCD_TIME_NOISE_FLOOR_MIN ELSE nf)
         IN  [bt |-> [t1 EXCEPT !.warmup_complete =
                                   t.frame_count >= t.start_frame
                                                    + BCD_TIME_WARMUP_FRAMES],
              ev |-> <<>>]
    ELSE BcdTimeStateStep(BcdTimeAdapt(t, energy), energy)

\* bcd_time_detector_process_sample, for the sample that completes a frame
\* whose 100 Hz bucket holds `energy`.
bcd_time_detector_process_sample(t, energy) ==
    IF ~t.detection_enabled
    THEN [bt |-> t, ev |-> <<>>]
    ELSE LET r == bcd_time_run_state_machine([t EXCEPT !.current_energy = energy])
         IN  [bt |-> [r.bt EXCEPT !.frame_count = @ + 1], ev |-> r.ev]

\* The last `n` elements of a sequence.
LastN(s, n) == IF Len(s) <= n THEN s ELSE SubSeq(s, Len(s) - n + 1, Len(s))

\* The caller feeds the BCD time-domain detector the samples of one frame of
\* a piecewise-constant input.
BcdTimeFrame(changes, energies, maxFrame) ==
    /\ bt.frame_count < maxFrame
    /\ \E e \in (IF bt.frame_count \in changes THEN energies ELSE {bt_level}) :
         LET r == bcd_time_detector_process_sample(bt, e) IN
         /\ bt' = r.bt
         /\ bt_events' = r.ev
         /\ bt_level' = e
         /\ bt_recent' = LastN(Append(bt_recent, e), MIN_LOW_FRAMES)
    /\ UNCHANGED <<tickVars, markerVars, bcdFreqVars, corrVars,
                   callVars, syncVars, mgrVars, fftVars, ctorVars>>

(***************************************************************************)
(* The FFT processor.  hz_per_bin is in units of 0.001 Hz.  The transform  *)
(* itself is done by the kiss_fft library, whose kiss_fft_alloc accepts    *)
(* every positive size (it factors the size into radix-4, 2, 3, 5 and      *)
(* generic stages) and fails only for want of memory.                      *)
(***************************************************************************)
FftNull == [valid |-> FALSE, fft_size |-> 0, sample_rate |-> 0, hz_per_bin |-> 0]

\* fft_processor_create; `memory` tells whether every allocation succeeds.
fft_processor_create(fft_size, sample_rate, memory) ==
    IF fft_size <= 0 \/ sample_rate <= 0
    THEN FftNull
    ELSE IF ~memory
    THEN FftNull
    ELSE [valid       |-> TRUE,
          fft_size    |-> fft_size,
          sample_rate |-> sample_rate,
          hz_per_bin  |-> (sample_rate * 1000) \div fft_size]

\* The caller creates an FFT processor.
FftProcessorCreate(sizes, rates) ==
    /\ \E n \in sizes, r \in rates, memory \in BOOLEAN :
         /\ fft' = fft_processor_create(n, r, memory)
         /\ fft_req' = [fft_size |-> n, sample_rate |-> r]
    /\ UNCHANGED <<tickVars, markerVars, bcdFreqVars, corrVars,
                   bcdTimeVars, callVars, syncVars, mgrVars, ctorVars>>

\* fft_processor_destroy.
FftProcessorDestroy ==
    /\ fft.valid
    /\ fft' = FftNull
    /\ UNCHANGED <<fft_req, tickVars, markerVars, bcdFreqVars, corrVars,
                   bcdTimeVars, callVars, syncVars, mgrVars, ctorVars>>

(***************************************************************************)
(* Construction of the tick detector.  Every allocation the constructor    *)
(* makes is a site; a call is given the set of sites whose allocation      *)
(* fails.  The object keeps, per resource field, the site its pointer came *)
(* from ("NULL": none); the heap keeps which sites were acquired and how   *)
(* often each was released.                                                *)
(***************************************************************************)
\* The allocations of tick_detector_create, in program order; the init_
\* sites are the allocations tick_correlation_init makes.
TickAllocOrder ==
    << "td", "fft", "i_buffer", "q_buffer",
       "template_i", "template_q", "corr_buf_i", "corr_buf_q",
       "init_template_i", "init_template_q", "init_corr_buf_i", "init_corr_buf_q",
       "wwv_clock", "comb_filter", "csv_file" >>
TickAllocSites == { TickAllocOrder[i] : i \in 1 .. Len(TickAllocOrder) }

\* The sample buffers, the matched-filter buffers and the FFT.
TickBufferSites ==
    { "fft", "i_buffer", "q_buffer",
      "template_i", "template_q", "corr_buf_i", "corr_buf_q",
      "init_template_i", "init_template_q", "init_corr_buf_i", "init_corr_buf_q" }

\* The fields of struct tick_detector that own a resource; `self` stands
\* for the struct itself.
TickBufferFields ==
    { "fft", "i_buffer", "q_buffer",
      "template_i", "template_q", "corr_buf_i", "corr_buf_q" }
TickResourceFields ==
    TickBufferFields \cup { "self", "wwv_clock", "comb_filter", "csv_file" }

\* Before any allocation.
TickObjNull ==
    [ fields   |-> [f \in TickResourceFields |-> "NULL"],
      acquired |-> {},
      released |-> [s \in TickAllocSites |-> 0] ]

\* field = allocation at `site`: the pointer, or NULL when it fails.  A
\* pointer the field held before is overwritten.
TickAcquire(o, field, site, fails) ==
    IF site \in fails
    THEN [o EXCEPT !.fields[field] = "NULL"]
    ELSE [o EXCEPT !.fields[field] = site, !.acquired = @ \cup {site}]

\* free / fclose / destroy of what the fields of `held` point to.
TickRelease(o, held) ==
    [o EXCEPT !.released =
        [s \in TickAllocSites |->
            @[s] + Cardinality({f \in held : o.fields[f] = s})]]

\* tick_detector_destroy: every resource the fields point to, then the
\* struct.
tick_detector_destroy(o) == TickRelease(o, TickResourceFields)

\* tick_correlation_init: allocates the four matched-filter buffers and
\* stores them in the fields; the template is generated only when all four
\* were obtained, and nothing is reported to the caller.
tick_correlation_init(o, fails) ==
    LET o1 == TickAcquire(o, "template_i", "init_template_i", fails)
        o2 == TickAcquire(o1, "template_q", "init_template_q", fails)
        o3 == TickAcquire(o2, "corr_buf_i", "init_corr_buf_i", fails)
    IN  TickAcquire(o3, "corr_buf_q", "init_corr_buf_q", fails)

\* What a tick_detector_create call left behind.
TickCreated(fails, returned, o) ==
    [ called   |-> TRUE,
      fails    |-> fails,
      returned |-> returned,
      fields   |-> o.fields,
      acquired |-> o.acquired,
      released |-> o.released ]
TickCreateNotCalled ==
    [ called   |-> FALSE,
      fails    |-> {},
      returned |-> FALSE,
      fields   |-> TickObjNull.fields,
      acquired |-> {},
      released |-> TickObjNull.released ]

\* tick_detector_create with the allocations of `fails` failing.
tick_detector_create(fails) ==
    LET o0 == TickAcquire(TickObjNull, "self", "td", fails)
        o1 == TickAcquire(o0, "fft", "fft", fails)
        o2 == TickAcquire(o1, "i_buffer", "i_buffer", fails)
        o3 == TickAcquire(o2, "q_buffer", "q_buffer", fails)
        o4 == TickAcquire(o3, "template_i", "template_i", fails)
        o5 == TickAcquire(o4, "template_q", "template_q", fails)
        o6 == TickAcquire(o5, "corr_buf_i", "corr_buf_i", fails)
        o7 == TickAcquire(o6, "corr_buf_q", "corr_buf_q", fails)
        o8 == tick_correlation_init(o7, fails)
        o9 == TickAcquire(o8, "wwv_clock", "wwv_clock", fails)
        o10 == TickAcquire(o9, "comb_filter", "comb_filter", fails)
        o11 == TickAcquire(o10, "csv_file", "csv_file", fails)
    IN  IF o0.fields["self"] = "NULL"
        THEN TickCreated(fails, FALSE, o0)
        ELSE IF o1.fields["fft"] = "NULL"
        THEN TickCreated(fails, FALSE, TickRelease(o1, {"self"}))
        ELSE IF \E f \in TickBufferFields : o7.fields[f] = "NULL"
        THEN TickCreated(fails, FALSE, tick_detector_destroy(o7))
        ELSE IF o10.fields["comb_filter"] = "NULL"
        THEN TickCreated(fails, FALSE, tick_detector_destroy(o10))
        ELSE TickCreated(fails, TRUE, o11)

\* The application creates a tick detector; at most `maxFails` of the
\* allocations fail.
TickDetectorCreateCall(maxFails) ==
    /\ \E fails \in SUBSET TickAllocSites :
         /\ Cardinality(fails) <= maxFails
         /\ tdc' = tick_detector_create(fails)
    /\ UNCHANGED <<mgr_req, tickVars, markerVars, bcdFreqVars, corrVars,
                   bcdTimeVars, callVars, syncVars, mgrVars, fftVars>>

\* The application destroys the detector the last call returned.
TickDetectorDestroyCall ==
    /\ tdc.called /\ tdc.returned
    /\ tdc' = [ tick_detector_destroy(tdc) EXCEPT !.returned = FALSE ]
    /\ UNCHANGED <<mgr_req, tickVars, markerVars, bcdFreqVars, corrVars,
                   bcdTimeVars, callVars, syncVars, mgrVars, fftVars>>

(***************************************************************************)
(* The detector manager.  It owns the tick detector `td` and the marker    *)
(* detector `md`; of the tone trackers the model keeps the sample          *)
(* bookkeeping of tone_tracker_process_sample and leaves the measurement   *)
(* out.  The correlators, the sync detector and the slow-marker detector   *)
(* appear only as receivers of what the manager hands them.  The external  *)
(* tick event's energy is left out (the model's tick event carries none).  *)
(***************************************************************************)
\* The tone tracker's frame length in samples.  The tracker's header fixes
\* it; the model keeps the frame short.
TONE_FFT_SIZE == 4

ToneNull == [present |-> FALSE, buffer_idx |-> 0, samples_collected |-> 0,
             frame_count |-> 0]

\* tone_tracker_create.
ToneTrackerCreate == [ToneNull EXCEPT !.present = TRUE]

\* tone_tracker_process_sample.
tone_tracker_process_sample(tt) ==
    IF ~tt.present
    THEN tt
    ELSE LET full == tt.samples_collected + 1 >= TONE_FFT_SIZE IN
         [tt EXCEPT !.buffer_idx = (@ + 1) % TONE_FFT_SIZE,
                    !.samples_collected = IF full THEN 0 ELSE @ + 1,
                    !.frame_count = IF full THEN @ + 1 ELSE @]

\* The manager before wwv_detector_manager_create.
ManagerNull ==
    [ created           |-> FALSE,
      tick_detector     |-> FALSE,
      marker_detector   |-> FALSE,
      tick_correlator   |-> FALSE,
      marker_correlator |-> FALSE,
      sync_detector     |-> FALSE,
      tone_carrier      |-> ToneNull,
      tone_500          |-> ToneNull,
      tone_600          |-> ToneNull,
      slow_marker       |-> [present |-> FALSE, frames |-> 0],
      tick_callback     |-> FALSE,
      marker_callback   |-> FALSE,
      sync_callback     |-> FALSE,
      detector_samples  |-> 0,
      display_samples   |-> 0 ]

\* What one manager call handed to each receiver.
NothingRouted ==
    [ tick_callback     |-> <<>>,
      tick_correlator   |-> <<>>,
      sync_detector     |-> <<>>,
      marker_correlator |-> <<>>,
      marker_callback   |-> <<>>,
      slow_frames       |-> 0 ]

\* The allocations of wwv_detector_manager_create: the manager struct and
\* one constructor call per component.
ManagerComponents ==
    { "tick_detector", "marker_detector", "tick_correlator",
      "marker_correlator", "sync_detector", "tone_carrier", "tone_500",
      "tone_600", "slow_marker" }
ManagerAllocSites == ManagerComponents \cup { "mgr" }

\* The configuration flag that enables a component.
ManagerEnabled(config, component) ==
    CASE component = "tick_detector" -> config.enable_tick_detector
      [] component = "marker_detector" -> config.enable_marker_detector
      [] component \in {"tick_correlator", "marker_correlator"} ->
             config.enable_correlators
      [] component = "sync_detector" -> config.enable_sync_detector
      [] component \in {"tone_carrier", "tone_500", "tone_600"} ->
             config.enable_tone_trackers
      [] OTHER -> config.enable_slow_marker

\* wwv_detector_lifecycle_create_all: each enabled component is what its
\* constructor returned (NULL for those of `fails`); the routine returns
\* true whatever the constructors returned.
wwv_detector_lifecycle_create_all(m, config, fails) ==
    LET got(component) ==
            ManagerEnabled(config, component) /\ component \notin fails
    IN  [ ok  |-> TRUE,
          mgr |-> [ m EXCEPT
                !.tick_detector = got("tick_detector"),
                !.marker_detector = got("marker_detector"),
                !.tick_correlator = got("tick_correlator"),
                !.marker_correlator = got("marker_correlator"),
                !.sync_detector = got("sync_detector"),
                !.tone_carrier = IF got("tone_carrier")
                                 THEN ToneTrackerCreate ELSE ToneNull,
                !.tone_500 = IF got("tone_500")
                             THEN ToneTrackerCreate ELSE ToneNull,
                !.tone_600 = IF got("tone_600")
                             THEN ToneTrackerCreate ELSE ToneNull,
                !.slow_marker = [present |-> got("slow_marker"), frames |-> 0] ] ]

\* wwv_detector_manager_create with the allocations of `fails` failing.
wwv_detector_manager_create_failing(config, fails) ==
    IF "mgr" \in fails
    THEN ManagerNull
    ELSE LET r == wwv_detector_lifecycle_create_all(
                      [ManagerNull EXCEPT !.created = TRUE], config, fails)
         IN  IF ~r.ok THEN ManagerNull ELSE r.mgr

\* wwv_detector_manager_create when every allocation succeeds.
wwv_detector_manager_create(config) ==
    wwv_detector_manager_create_failing(config, {})

\* What the last wwv_detector_manager_create call was given.
ManagerCreateCalled(config, fails) ==
    [ called |-> TRUE, config |-> config, fails |-> fails ]
ManagerCreateNotCalled ==
    [ called |-> FALSE,
      config |-> [ enable_tick_detector   |-> FALSE,
                   enable_marker_detector |-> FALSE,
                   enable_correlators     |-> FALSE,
                   enable_sync_detector   |-> FALSE,
                   enable_tone_trackers   |-> FALSE,
                   enable_slow_marker     |-> FALSE ],
      fails  |-> {} ]

\* The events of `ev` whose type is `type`.
EventsOfType(ev, type) == SelectSeq(ev, LAMBDA e : e.type = type)

\* The wwv_tick_event_t built by wwv_routing_on_tick_event.
ExternalTickEvent(e) ==
    [ tick_number  |-> e.number,
      timestamp_ms |-> e.timestamp_ms,
      duration_ms  |-> e.duration_ms ]

\* The wwv_marker_event_t built by wwv_routing_on_marker_event.
ExternalMarkerEvent(e) ==
    [ marker_number |-> e.marker_number,
      timestamp_ms  |-> e.timestamp_ms,
      duration_ms   |-> e.duration_ms ]

ExternalTickEvents(ev) == [i \in 1 .. Len(ev) |-> ExternalTickEvent(ev[i])]
ExternalMarkerEvents(ev) == [i \in 1 .. Len(ev) |-> ExternalMarkerEvent(ev[i])]

\* wwv_routing_on_tick_event: what the tick correlator is handed for the tick
\* events of one frame.  The routine does not feed the correlator.
RoutedToTickCorrelator(m, ticks) == <<>>

\* wwv_routing_on_tick_event, wwv_routing_on_tick_marker_event and
\* wwv_routing_on_marker_event for the events of one frame: tick_ev from the
\* tick detector, marker_ev from the marker detector.
wwv_routing(m, tick_ev, marker_ev) ==
    [ NothingRouted EXCEPT
        !.tick_callback =
            IF m.tick_callback
            THEN ExternalTickEvents(EventsOfType(tick_ev, "TICK"))
            ELSE <<>>,
        !.tick_correlator =
            RoutedToTickCorrelator(m, EventsOfType(tick_ev, "TICK")),
        !.sync_detector =
            IF m.sync_detector THEN EventsOfType(tick_ev, "MARKER") ELSE <<>>,
        !.marker_correlator = IF m.marker_correlator THEN marker_ev ELSE <<>>,
        !.marker_callback =
            IF m.marker_callback THEN ExternalMarkerEvents(marker_ev)
            ELSE <<>> ]

\* Faulty variant: one sample counter for both paths.
ProcessDisplaySampleSharedCounter(m) ==
    [m EXCEPT !.tone_carrier = tone_tracker_process_sample(@),
              !.tone_500 = tone_tracker_process_sample(@),
              !.tone_600 = tone_tracker_process_sample(@),
              !.detector_samples = @ + 1,
              !.display_samples = m.detector_samples + 1]

\* wwv_detector_manager_process_display_sample.
wwv_detector_manager_process_display_sample(m) ==
    [m EXCEPT !.tone_carrier = tone_tracker_process_sample(@),
              !.tone_500 = tone_tracker_process_sample(@),
              !.tone_600 = tone_tracker_process_sample(@),
              !.display_samples = @ + 1]

\* The application creates the manager while the allocations of one of
\* `failSets` fail.
ManagerCreateFailing(configs, failSets) ==
    /\ ~mgr.created
    /\ \E config \in configs, fails \in failSets :
         /\ mgr' = wwv_detector_manager_create_failing(config, fails)
         /\ mgr_req' = ManagerCreateCalled(config, fails)
    /\ mgr_out' = NothingRouted
    /\ UNCHANGED <<tdc, tickVars, markerVars, bcdFreqVars, corrVars,
                   bcdTimeVars, callVars, syncVars, fftVars>>

\* The application creates the manager and every allocation succeeds.
ManagerCreate(configs) == ManagerCreateFailing(configs, {{}})

\* wwv_detector_manager_destroy.
ManagerDestroy ==
    /\ mgr.created
    /\ mgr' = ManagerNull
    /\ mgr_out' = NothingRouted
    /\ UNCHANGED <<tickVars, markerVars, bcdFreqVars, corrVars,
                   bcdTimeVars, callVars, syncVars, fftVars, ctorVars>>

\* wwv_detector_manager_set_tick_callback, with a callback or with NULL.
ManagerSetTickCallback ==
    /\ mgr.created
    /\ \E cb \in BOOLEAN : mgr' = [mgr EXCEPT !.tick_callback = cb]
    /\ mgr_out' = NothingRouted
    /\ UNCHANGED <<tickVars, markerVars, bcdFreqVars, corrVars,
                   bcdTimeVars, callVars, syncVars, fftVars, ctorVars>>

\* The application pushes the detector-path samples of one frame
\* (wwv_detector_manager_process_detector_sample, TICK_FFT_SIZE times): the
\* tick detector and the marker detector, which have the same frame length,
\* each complete a frame and the manager routes what they emit.  The marker
\* detector's bucket energy is the tick detector's in its own units.
ManagerDetectorFrame(starts, lengths, maxFrame) ==
    /\ mgr.created
    /\ mgr.detector_samples < maxFrame * TICK_FFT_SIZE
    /\ \E in \in (IF mgr.tick_detector THEN FrameInputs(starts, lengths)
                                      ELSE {QuietInput}) :
         /\ IF mgr.tick_detector
            THEN TickFed(in)
            ELSE UNCHANGED <<td, pulse, events, last_op, prev_tick_ts,
                             pulse_events, gate_ref, bypassed, silent>>
         /\ IF mgr.marker_detector
            THEN MarkerFed(in.energy * 100)
            ELSE UNCHANGED <<md, md_events, md_level, md_since, md_prev_event_ms>>
    /\ mgr' = [mgr EXCEPT !.detector_samples = @ + TICK_FFT_SIZE]
    /\ mgr_out' = wwv_routing(mgr,
                              IF mgr.tick_detector THEN events' ELSE <<>>,
                              IF mgr.marker_detector THEN md_events' ELSE <<>>)
    /\ UNCHANGED <<api_calls, level, md_left, bcdFreqVars, corrVars,
                   bcdTimeVars, callVars, syncVars, fftVars, ctorVars>>

\* The application pushes one display-path sample.
ManagerDisplaySample(maxSamples) ==
    /\ mgr.created
    /\ mgr.display_samples < maxSamples
    /\ mgr' = wwv_detector_manager_process_display_sample(mgr)
    /\ mgr_out' = NothingRouted
    /\ UNCHANGED <<tickVars, markerVars, bcdFreqVars, corrVars,
                   bcdTimeVars, callVars, syncVars, fftVars, ctorVars>>

\* wwv_detector_manager_process_display_fft: the slow-marker detector is
\* handed a display-path spectrum and reports a frame, which
\* wwv_routing_on_slow_marker_frame hands to the marker correlator.
ManagerDisplayFft(maxFrames) ==
    /\ mgr.created
    /\ mgr.slow_marker.present
    /\ mgr.slow_marker.frames < maxFrames
    /\ mgr' = [mgr EXCEPT !.slow_marker.frames = @ + 1]
    /\ mgr_out' = [NothingRouted EXCEPT
                     !.slow_frames = IF mgr.marker_correlator THEN 1 ELSE 0]
    /\ UNCHANGED <<tickVars, markerVars, bcdFreqVars, corrVars,
                   bcdTimeVars, callVars, syncVars, fftVars, ctorVars>>

(***************************************************************************)
(* The sync detector.  Its source is not among the repository files (only  *)
(* its callers are: the manager hands it tick-marker events, the BCD       *)
(* correlator reads its state and last marker); this model follows the     *)
(* specification's "Sync detector (evidence fusion)".  Times are in ms,     *)
(* confidence and weights in thousandths.  The specification gives no      *)
(* value for LOCK_THRESHOLD.                                               *)
(***************************************************************************)
SYNC_MARKER_INTERVAL_MS == 60000
SYNC_MARKER_TOLERANCE_MS == 30
SYNC_TICK_WEIGHT == 150
SYNC_MARKER_WEIGHT == 450
SYNC_DECAY_NORMAL == 10
SYNC_DECAY_RECOVERING == 50
SYNC_MARKERS_TO_LOCK == 3
RECOVER_TIMEOUT_MS == 90000
LOCK_THRESHOLD == 700

SyncDetectorCreate ==
    [ state               |-> "SEARCHING",
      confidence          |-> 0,
      markers_agreeing    |-> 0,
      last_marker_ms      |-> 0 - 1,
      expected_marker_ms  |-> 0 - 1,
      recovering_since_ms |-> 0,
      now_ms              |-> 0 ]

\* "confidence is additively boosted (weight x (1 - confidence))".
SyncBoost(confidence, weight) ==
    confidence + (weight * (1000 - confidence)) \div 1000

\* "confidence decays by a small factor each second".
SyncDecay(confidence, decay) ==
    IF confidence > decay THEN confidence - decay ELSE 0

\* "three consecutive markers agree within tolerance OR confidence >=
\* LOCK_THRESHOLD".
SyncLockReached(s) ==
    \/ s.markers_agreeing >= SYNC_MARKERS_TO_LOCK
    \/ s.confidence >= LOCK_THRESHOLD

\* The marker at `timestamp_ms` is where the detector expects one.
SyncMarkerMatches(s, timestamp_ms) ==
    /\ s.expected_marker_ms >= 0
    /\ timestamp_ms - s.expected_marker_ms <= SYNC_MARKER_TOLERANCE_MS
    /\ s.expected_marker_ms - timestamp_ms <= SYNC_MARKER_TOLERANCE_MS

SyncWithMarker(s, timestamp_ms) ==
    [s EXCEPT !.last_marker_ms = timestamp_ms,
              !.expected_marker_ms = timestamp_ms + SYNC_MARKER_INTERVAL_MS]

\* A confirmed minute marker is reported to the sync detector.
sync_detector_marker(s, timestamp_ms) ==
    CASE s.state = "SEARCHING" ->
           [SyncWithMarker(s, timestamp_ms) EXCEPT
               !.state = "ACQUIRING",
               !.markers_agreeing = 1,
               !.confidence = SyncBoost(s.confidence, SYNC_MARKER_WEIGHT)]
      [] s.state = "ACQUIRING" ->
           IF SyncMarkerMatches(s, timestamp_ms)
           THEN LET s1 == [SyncWithMarker(s, timestamp_ms) EXCEPT
                             !.markers_agreeing = @ + 1,
                             !.confidence = SyncBoost(s.confidence,
                                                      SYNC_MARKER_WEIGHT)]
                IN  [s1 EXCEPT !.state = IF SyncLockReached(s1)
                                         THEN "LOCKED" ELSE @]
           ELSE [SyncWithMarker(s, timestamp_ms) EXCEPT !.markers_agreeing = 1]
      [] s.state = "LOCKED" ->
           IF SyncMarkerMatches(s, timestamp_ms)
           THEN [SyncWithMarker(s, timestamp_ms) EXCEPT
                   !.markers_agreeing = @ + 1,
                   !.confidence = SyncBoost(s.confidence, SYNC_MARKER_WEIGHT)]
           ELSE s
      [] s.state = "RECOVERING" ->
           IF SyncMarkerMatches(s, timestamp_ms)
           THEN [SyncWithMarker(s, timestamp_ms) EXCEPT
                   !.state = "LOCKED",
                   !.markers_agreeing = @ + 1,
                   !.confidence = SyncBoost(s.confidence, SYNC_MARKER_WEIGHT)]
           ELSE s

\* Faulty variant: a missed marker drops a locked detector to SEARCHING.
SyncMarkerMissedToSearching(s) ==
    [s EXCEPT !.state = IF @ = "LOCKED" THEN "SEARCHING" ELSE @,
              !.recovering_since_ms = IF s.state = "LOCKED" THEN s.now_ms ELSE @,
              !.markers_agreeing = 0,
              !.expected_marker_ms = @ + SYNC_MARKER_INTERVAL_MS]

\* The expected marker did not come: "LOCKED -> RECOVERING when the next
\* expected marker is missed".
SyncMarkerMissed(s) ==
    [s EXCEPT !.state = IF @ = "LOCKED" THEN "RECOVERING" ELSE @,
              !.recovering_since_ms = IF s.state = "LOCKED" THEN s.now_ms ELSE @,
              !.markers_agreeing = 0,
              !.expected_marker_ms = @ + SYNC_MARKER_INTERVAL_MS]

\* The passing of time up to now_ms: "RECOVERING -> SEARCHING after
\* RECOVER_TIMEOUT", and the check for a missed marker.
sync_detector_periodic_check(s0, now_ms) ==
    LET s == [s0 EXCEPT !.now_ms = now_ms] IN
    IF s.state = "RECOVERING"
       /\ now_ms - s.recovering_since_ms >= RECOVER_TIMEOUT_MS
    THEN [SyncDetectorCreate EXCEPT !.now_ms = now_ms]
    ELSE IF s.state # "SEARCHING"
            /\ now_ms > s.expected_marker_ms + SYNC_MARKER_TOLERANCE_MS
    THEN SyncMarkerMissed(s)
    ELSE s

\* A second boundary with or without a tick where one is predicted.
sync_detector_tick(s, matched) ==
    IF s.state = "SEARCHING"
    THEN s
    ELSE IF matched
    THEN LET s1 == [s EXCEPT !.confidence = SyncBoost(@, SYNC_TICK_WEIGHT)]
         IN  [s1 EXCEPT !.state = IF @ = "ACQUIRING" /\ SyncLockReached(s1)
                                  THEN "LOCKED" ELSE @]
    ELSE [s EXCEPT !.confidence =
                      SyncDecay(@, IF s.state = "RECOVERING"
                                   THEN SYNC_DECAY_RECOVERING
                                   ELSE SYNC_DECAY_NORMAL)]

SyncLogged(kind, ticks, s) ==
    [ kind  |-> kind,
      ticks |-> ticks,
      from  |-> sync_det.state,
      edges |-> IF s.state # sync_det.state
                THEN sync_log.edges \cup {<<sync_det.state, s.state>>}
                ELSE sync_log.edges ]

\* One second passes, with or without a tick on the predicted boundary; the
\* ticks may come or go only at a second of `changes`.
SyncSecond(changes, maxMs) ==
    /\ sync_det.now_ms < maxMs
    /\ \E matched \in (IF sync_det.now_ms \in changes THEN BOOLEAN
                                                     ELSE {sync_log.ticks}) :
         LET s == sync_detector_tick(
                      sync_detector_periodic_check(sync_det,
                                                   sync_det.now_ms + 1000),
                      matched)
         IN  /\ sync_det' = s
             /\ sync_log' = SyncLogged("second", matched, s)
    /\ UNCHANGED <<tickVars, markerVars, bcdFreqVars, corrVars,
                   bcdTimeVars, callVars, mgrVars, fftVars, ctorVars>>

\* The marker correlator reports a confirmed marker, at one of `seconds`
\* plus a jitter of `jitters`.
SyncMarker(seconds, jitters) ==
    /\ sync_det.now_ms \in seconds
    /\ sync_det.last_marker_ms < sync_det.now_ms
    /\ \E j \in jitters :
         LET s == sync_detector_marker(sync_det, sync_det.now_ms + j)
         IN  /\ sync_det' = s
             /\ sync_log' = SyncLogged("marker", sync_log.ticks, s)
    /\ UNCHANGED <<tickVars, markerVars, bcdFreqVars, corrVars,
                   bcdTimeVars, callVars, mgrVars, fftVars, ctorVars>>

\* What the sync detector reports when the correlator asks.
SyncInput(state, last_marker_ms) == [state |-> state, last_marker_ms |-> last_marker_ms]

\* What the sync detector reports when no sync source is linked to the
\* correlator (corr->sync_source is NULL).
NoSyncSource == SyncInput("NO_SOURCE", 0)

\* The pulse event of one correlator call, as recorded in bcd_in.
PulseEventIn(source, timestamp_ms, duration_ms, energy, sync) ==
    [ source       |-> source,
      timestamp_ms |-> timestamp_ms,
      duration_ms  |-> duration_ms,
      energy       |-> energy,
      sync         |-> sync ]
NoPulseEvent == PulseEventIn("NONE", 0, 0, 0, NoSyncSource)

\* The time-domain detector reports a pulse.  Each detector reports its
\* pulses in the order of their timestamps.
BcdTimeEvent(timestamps, durations, energies, syncs, maxEvents) ==
    /\ bcd_calls < maxEvents
    /\ \E ts \in timestamps, d \in durations, e \in energies, s \in syncs :
         LET r == bcd_correlator_time_event(bcd_corr, ts, d, e, s) IN
         /\ ts >= time_prev_ms
         /\ bcd_in' = PulseEventIn("TIME", ts, d, e, s)
         /\ bcd_corr' = r.corr
         /\ sym_events' = r.ev
         /\ sym_log' = sym_log \o r.ev
         /\ time_prev_ms' = ts
    /\ bcd_calls' = bcd_calls + 1
    /\ UNCHANGED <<freq_prev_ms, tickVars, markerVars, bcdFreqVars,
                   laterVars>>

\* The frequency-domain detector reports a pulse.
BcdFreqEventReported(timestamps, durations, energies, syncs, maxEvents) ==
    /\ bcd_calls < maxEvents
    /\ \E ts \in timestamps, d \in durations, e \in energies, s \in syncs :
         LET r == bcd_correlator_freq_event(bcd_corr, ts, d, e, s) IN
         /\ ts >= freq_prev_ms
         /\ bcd_in' = PulseEventIn("FREQ", ts, d, e, s)
         /\ bcd_corr' = r.corr
         /\ sym_events' = r.ev
         /\ sym_log' = sym_log \o r.ev
         /\ freq_prev_ms' = ts
    /\ bcd_calls' = bcd_calls + 1
    /\ UNCHANGED <<time_prev_ms, tickVars, markerVars, bcdFreqVars,
                   laterVars>>

\* The correlator has been destroyed.
BcdCorrelatorGone == bcd_in.source = "DESTROYED"

\* The application destroys the correlator.
BcdCorrelatorDestroy ==
    /\ ~BcdCorrelatorGone
    /\ LET r == bcd_correlator_destroy(bcd_corr) IN
         /\ bcd_corr' = r.corr
         /\ sym_events' = r.ev
         /\ sym_log' = sym_log \o r.ev
    /\ bcd_in' = PulseEventIn("DESTROYED", 0, 0, 0, NoSyncSource)
    /\ UNCHANGED <<bcd_calls, time_prev_ms, freq_prev_ms, tickVars, markerVars,
                   bcdFreqVars, laterVars>>

Init ==
    /\ td = TickDetectorCreate
    /\ pulse = [age |-> 0, corr |-> 0]
    /\ events = <<>>
    /\ last_op = "create"
    /\ prev_tick_ts = 0 - 1
    /\ pulse_events = {}
    /\ gate_ref = 0
    /\ bypassed = FALSE
    /\ api_calls = 0
    /\ level = 0
    /\ silent = TRUE
    /\ md = MarkerDetectorCreate
    /\ md_events = <<>>
    /\ md_level = 0
    /\ md_left = 0
    /\ md_since = 0
    /\ md_prev_event_ms = 0 - 1
    /\ fd = BcdFreqDetectorCreate
    /\ fd_events = <<>>
    /\ fd_level = 0
    /\ bcd_corr = BcdCorrelatorCreate
    /\ sym_events = <<>>
    /\ sym_log = <<>>
    /\ bcd_calls = 0
    /\ time_prev_ms = 0
    /\ freq_prev_ms = 0
    /\ bt = BcdTimeDetectorCreate
    /\ bt_events = <<>>
    /\ bt_level = 0
    /\ bt_recent = <<>>
    /\ call = [fn |-> "none", value |-> 0, ret |-> "none"]
    /\ sync_det = SyncDetectorCreate
    /\ sync_log = [kind |-> "none", ticks |-> FALSE, from |-> "SEARCHING",
                   edges |-> {}]
    /\ mgr = ManagerNull
    /\ mgr_out = NothingRouted
    /\ fft = FftNull
    /\ fft_req = [fft_size |-> 0, sample_rate |-> 0]
    /\ bcd_in = NoPulseEvent
    /\ tdc = TickCreateNotCalled
    /\ mgr_req = ManagerCreateNotCalled

(***************************************************************************)
(* TickSpec: pulses of any length right after warmup, with tunable changes *)
(***************************************************************************)
MaxFrameTick == 175
MaxCallsTick == 1
TickStarts == { 49, 51, 151, 158, 160 }
TickLengths == { 1, 2, 8, 9, 20 }
TickCallFrames == { 0, 52 }

TickNext ==
    \/ Frame(TickStarts, TickLengths, MaxFrameTick)
    \/ SetThresholdMult(TickCallFrames, MaxCallsTick)
    \/ SetMinDuration(TickCallFrames, MaxCallsTick)

TickSpec == Init /\ [][TickNext]_vars

(***************************************************************************)
(* MarkerSpec: a first pulse after warmup and a second one about 55 s      *)
(* later, each a tick, a gap-zone pulse, a marker or an over-long pulse    *)
(***************************************************************************)
MaxFrameMarker == 11060
\* 10742 frames are 54 999.04 ms and 10743 frames are 55 004.16 ms.
MarkerStarts == { TICK_WARMUP_FRAMES + 1,
                  TICK_WARMUP_FRAMES + 1 + (MARKER_MIN_INTERVAL_MS \div FRAME_DURATION_MS),
                  TICK_WARMUP_FRAMES + 2 + (MARKER_MIN_INTERVAL_MS \div FRAME_DURATION_MS) }
MarkerLengths == { 8, 116, 117, 195, 196, 250 }

MarkerNext == Frame(MarkerStarts, MarkerLengths, MaxFrameMarker)

MarkerSpec == Init /\ [][MarkerNext]_vars

(***************************************************************************)
(* GateSpec: an epoch is installed and the timing gate switched on and     *)
(* off, with pulses inside and outside the gate window, for long enough    *)
(* to reach recovery mode                                                  *)
(***************************************************************************)
MaxFrameGate == 1210
MaxCallsGate == 3
GateStarts == { 60, 200, 1060, 1200 }
GateLengths == { 2 }
GateEpochFrames == { 0 }
GateCallFrames == { 0, 51, 1050 }

GateNext ==
    \/ Frame(GateStarts, GateLengths, MaxFrameGate)
    \/ SetEpoch(GateEpochFrames, MaxCallsGate)
    \/ SetGating(GateCallFrames, MaxCallsGate)

GateSpec == Init /\ [][GateNext]_vars

(***************************************************************************)
(* NoiseSpec: a piecewise-constant bucket energy, from silence to a signal *)
(* far above full scale, during and after warmup                           *)
(***************************************************************************)
MaxFrameNoise == 1150
NoiseChanges == { 0, 25, 51 }
\* 0, 0.1, 6.0 and 20.0
NoiseEnergies == { 0, 1000, 60000, 200000 }

NoiseNext == EnergyFrame(NoiseChanges, NoiseEnergies, MaxFrameNoise)

NoiseSpec == Init /\ [][NoiseNext]_vars

(***************************************************************************)
(* WindowSpec: the marker detector and the BCD frequency-domain detector   *)
(* each fed a piecewise-constant input from construction, silence and a    *)
(* weak frame after strong ones included.                                  *)
(***************************************************************************)
MaxFrameWindowMarker == 125
MaxFrameWindowBcdFreq == 5
WindowMarkerChanges == {0, MARKER_WINDOW_FRAMES}
WindowBcdFreqChanges == {0, 1, WINDOW_FRAMES}
\* Silence, the smallest energy, and an energy at which the spacing of the
\* floats is twice the smallest energy.
WindowEnergies == {0, 1, Pow2(FLOAT_MANT_DIG)}

WindowNext ==
    \/ MarkerFrame(WindowMarkerChanges, WindowEnergies, MaxFrameWindowMarker)
    \/ BcdFreqFrame(WindowBcdFreqChanges, WindowEnergies, MaxFrameWindowBcdFreq)

WindowSpec == Init /\ [][WindowNext]_vars

(***************************************************************************)
(* SymbolSpec: a few pulse events of every length, before and after the    *)
(* anchor, with the sync detector locked, unlocked, or locked on the next  *)
(* minute.                                                                 *)
(***************************************************************************)
MaxEventsSymbol == 3
SymbolAnchor == 1000
SymbolSyncs == { SyncInput("LOCKED", SymbolAnchor),
                 SyncInput("ACQUIRING", SymbolAnchor),
                 SyncInput("LOCKED", SymbolAnchor + MINUTE_MS) }
\* Before the anchor, in second 1, twice in second 9.
SymbolTimeStamps == {500, 2050, 10050, 10400}
SymbolDurations == {50, 200, 500, 800, 950}
SymbolEnergies == {1, 10000}
SymbolFreqStamps == {10050, 11050}

SymbolNext ==
    \/ BcdTimeEvent(SymbolTimeStamps, SymbolDurations, SymbolEnergies,
                    SymbolSyncs, MaxEventsSymbol)
    \/ BcdFreqEventReported(SymbolFreqStamps, {800}, {10000},
                            {SyncInput("LOCKED", SymbolAnchor)}, MaxEventsSymbol)

SymbolSpec == Init /\ [][SymbolNext]_vars

(***************************************************************************)
(* SecondsSpec: the sync detector stays locked on one anchor; pulses of    *)
(* one length arrive in some of the seconds of the minute, from both       *)
(* detectors.                                                              *)
(***************************************************************************)
MaxEventsSeconds == 6
SecondsSyncs == { SyncInput("LOCKED", 0) }
SecondsStamps == {1050, 2050, 3050, 5050, 6050, 7050}

SecondsNext ==
    \/ BcdTimeEvent(SecondsStamps, {200}, {10000}, SecondsSyncs, MaxEventsSeconds)
    \/ BcdFreqEventReported(SecondsStamps, {200}, {10000}, SecondsSyncs,
                            MaxEventsSeconds)

SecondsSpec == Init /\ [][SecondsNext]_vars

(***************************************************************************)
(* MarkerDetSpec: the marker detector fed a quiet input with a pulse right *)
(* after the startup silence and a pulse around the end of the cooldown.   *)
(***************************************************************************)
MaxFrameMarkerDet == 8100
MarkerDetQuiet == 1000
MarkerDetLoud == 100000
\* The first frame after the startup silence, and a frame shortly before the
\* cooldown of a pulse that began there ends.
MarkerDetStarts ==
    { MARKER_MIN_STARTUP_MS \div MARKER_FRAME_DURATION_MS + 7,
      MARKER_MIN_STARTUP_MS \div MARKER_FRAME_DURATION_MS + 7
          + MarkerCooldownFrames + 101 }
\* Too short for a marker, a marker, longer than the timeout.
MarkerDetLengths == {50, 100, 980}

MarkerDetNext ==
    MarkerPulseFrame(MarkerDetStarts, MarkerDetLengths, MarkerDetQuiet,
                     MarkerDetLoud, MaxFrameMarkerDet)

MarkerDetSpec == Init /\ [][MarkerDetNext]_vars

(***************************************************************************)
(* BcdTimeSpec: the BCD time-domain detector fed a quiet input on which,   *)
(* after the warmup, every frame of a short stretch may be quiet, loud or  *)
(* in between the two thresholds.                                          *)
(***************************************************************************)
MaxFrameBcdTime == 66
BcdTimeQuiet == 1000
BcdTimeMiddle == 1500
BcdTimeLoud == 100000
BcdTimeChanges == 52 .. 61
BcdTimeEnergies == {BcdTimeQuiet, BcdTimeMiddle, BcdTimeLoud}

BcdTimeNext ==
    BcdTimeFrame({0} \cup BcdTimeChanges, BcdTimeEnergies, MaxFrameBcdTime)

BcdTimeSpec == Init /\ [][BcdTimeNext]_vars

(***************************************************************************)
(* BcdFreqSpec: the BCD frequency-domain detector fed a quiet input that   *)
(* may turn loud after the warmup and turn quiet again a few, or many,     *)
(* frames later.                                                           *)
(***************************************************************************)
MaxFrameBcdFreq == 80
BcdFreqQuiet == 1000
BcdFreqLoud == 100000
BcdFreqChanges == {0, 55, 57, 60, 68, 75}

BcdFreqNext ==
    BcdFreqFrame(BcdFreqChanges, {BcdFreqQuiet, BcdFreqLoud}, MaxFrameBcdFreq)

BcdFreqSpec == Init /\ [][BcdFreqNext]_vars

(***************************************************************************)
(* TickTunableSpec: the tick detector on a quiet or noisy input, with up   *)
(* to two setter calls, before the first frame or after the warmup, with   *)
(* values below, at the ends of, inside and above the accepted ranges.     *)
(***************************************************************************)
MaxFrameTickTunable == 60
MaxCallsTickTunable == 2
TickTunableChanges == {0, 53}
TickTunableEnergies == {0, 100, 5000}
TickTunableCallFrames == {0, 55}
TickTunableMults == {5, 9, 10, 30, 50, 51, 60}
TickTunableDurations == {50, 99, 100, 1000, 1001, 2000}

TickTunableNext ==
    \/ EnergyFrame(TickTunableChanges, TickTunableEnergies, MaxFrameTickTunable)
    \/ SetThresholdMultOf(TickTunableMults, TickTunableCallFrames, MaxCallsTickTunable)
    \/ SetMinDurationOf(TickTunableDurations, TickTunableCallFrames, MaxCallsTickTunable)

TickTunableSpec == Init /\ [][TickTunableNext]_vars

(***************************************************************************)
(* MarkerTunableSpec: the marker detector on a quiet or loud input, with   *)
(* setter calls before the first frame or after the warmup, with values    *)
(* below, at an end of and above the accepted ranges.                      *)
(***************************************************************************)
MaxFrameMarkerTunable == 210
MarkerTunableCallFrames == {0, 205}
MarkerTunableMults == {19, 20, 51}
MarkerTunableRates == {0, 100, 101}
MarkerTunableDurations == {29999, 70000, 70001}

MarkerTunableNext ==
    \/ MarkerFrame({0}, {MarkerDetQuiet, MarkerDetLoud}, MaxFrameMarkerTunable)
    \/ MarkerSetThresholdMult(MarkerTunableMults, MarkerTunableCallFrames)
    \/ MarkerSetNoiseAdaptRate(MarkerTunableRates, MarkerTunableCallFrames)
    \/ MarkerSetMinDuration(MarkerTunableDurations, MarkerTunableCallFrames)

MarkerTunableSpec == Init /\ [][MarkerTunableNext]_vars

(***************************************************************************)
(* FftSpec: FFT processors of every small size, at the display and the     *)
(* detector rate and at no rate, created and destroyed.                    *)
(***************************************************************************)
MaxFftSize == 64
FftSizes == (0 - 1) .. MaxFftSize
FftRates == {0, 12000, 50000}

FftNext ==
    \/ FftProcessorCreate(FftSizes, FftRates)
    \/ FftProcessorDestroy

FftSpec == Init /\ [][FftNext]_vars

(***************************************************************************)
(* ManagerSpec: a manager with everything, with the tick detector alone or *)
(* with the display path alone; a tick callback registered or not; a pulse *)
(* after the tick detector's warmup; a few display samples and spectra.    *)
(***************************************************************************)
MaxFrameManager == 58
MaxDisplaySamples == 5
MaxDisplayFrames == 1
ManagerStarts == {51}
ManagerLengths == {1, 2}
ManagerConfig(tick, marker, correlators, sync_on, tones, slow) ==
    [ enable_tick_detector   |-> tick,
      enable_marker_detector |-> marker,
      enable_correlators     |-> correlators,
      enable_sync_detector   |-> sync_on,
      enable_tone_trackers   |-> tones,
      enable_slow_marker     |-> slow ]
ManagerConfigs ==
    { ManagerConfig(TRUE, TRUE, TRUE, TRUE, TRUE, TRUE),
      ManagerConfig(TRUE, FALSE, FALSE, FALSE, FALSE, FALSE),
      ManagerConfig(FALSE, FALSE, FALSE, FALSE, TRUE, TRUE) }

ManagerNext ==
    \/ ManagerCreate(ManagerConfigs)
    \/ ManagerSetTickCallback
    \/ ManagerDetectorFrame(ManagerStarts, ManagerLengths, MaxFrameManager)
    \/ ManagerDisplaySample(MaxDisplaySamples)
    \/ ManagerDisplayFft(MaxDisplayFrames)

ManagerSpec == Init /\ [][ManagerNext]_vars

(***************************************************************************)
(* SyncSpec: seconds with and without ticks, and markers on, near and off  *)
(* the minute.                                                             *)
(***************************************************************************)
MaxSyncMs == 280000
SyncTickChanges == {0, 70000, 130000}
SyncMarkerSeconds == {5000, 40000, 65000, 125000, 185000}
SyncMarkerJitters == {0, 20, 40}

SyncNext ==
    \/ SyncSecond(SyncTickChanges, MaxSyncMs)
    \/ SyncMarker(SyncMarkerSeconds, SyncMarkerJitters)

SyncSpec == Init /\ [][SyncNext]_vars

(***************************************************************************)
(* LifecycleSpec: a tick detector and a manager are constructed while some *)
(* of the allocations fail, and destroyed again.                           *)
(***************************************************************************)
MaxTickAllocFails == 2
\* No allocation fails, or one does.
ManagerFailSets == { {} } \cup { {site} : site \in ManagerAllocSites }

LifecycleNext ==
    \/ TickDetectorCreateCall(MaxTickAllocFails)
    \/ TickDetectorDestroyCall
    \/ ManagerCreateFailing(ManagerConfigs, ManagerFailSets)
    \/ ManagerDestroy

LifecycleSpec == Init /\ [][LifecycleNext]_vars

(***************************************************************************)
(* BcdTimeLongSpec: the BCD time-domain detector fed a quiet input that    *)
(* may turn loud after the warmup and may turn quiet again shortly after   *)
(* or much later, or stay loud to the end of the run.                      *)
(***************************************************************************)
MaxFrameBcdTimeLong == 420
BcdTimeLongChanges == {0, 52, 60, 150, 300}
BcdTimeLongEnergies == {BcdTimeQuiet, BcdTimeLoud}

BcdTimeLongNext ==
    BcdTimeFrame(BcdTimeLongChanges, BcdTimeLongEnergies, MaxFrameBcdTimeLong)

BcdTimeLongSpec == Init /\ [][BcdTimeLongNext]_vars

(***************************************************************************)
(* CorrelatorSpec: pulse events of both detectors in the last seconds of a *)
(* minute and the first of the next, while the sync detector is locked on  *)
(* the first minute's marker, has lost lock, is not linked, or is locked   *)
(* on the next marker; the correlator may be destroyed at any point.       *)
(***************************************************************************)
MaxEventsCorrelator == 3
CorrelatorSyncs == { SyncInput("LOCKED", 0),
                     SyncInput("ACQUIRING", 0),
                     NoSyncSource,
                     SyncInput("LOCKED", MINUTE_MS) }
CorrelatorTimeStamps == {58050, 58400, 59050, 60500, 61050}
CorrelatorFreqStamps == {58050, 59050, 60500}
CorrelatorDurations == {50, 200}
CorrelatorEnergies == {10000}

CorrelatorNext ==
    \/ /\ ~BcdCorrelatorGone
       /\ BcdTimeEvent(CorrelatorTimeStamps, CorrelatorDurations,
                       CorrelatorEnergies, CorrelatorSyncs, MaxEventsCorrelator)
    \/ /\ ~BcdCorrelatorGone
       /\ BcdFreqEventReported(CorrelatorFreqStamps, CorrelatorDurations,
                               CorrelatorEnergies, CorrelatorSyncs,
                               MaxEventsCorrelator)
    \/ BcdCorrelatorDestroy

CorrelatorSpec == Init /\ [][CorrelatorNext]_vars

(***************************************************************************)
(* Properties of the tick detector                                         *)
(***************************************************************************)
EventTypes == TickTypes(events)
DurationMs(d) == d.tick_duration_frames * FRAME_DURATION_MS
\* A frame step in which the detector finishes measuring a pulse.
PulseMeasured == td.state = "IN_TICK" /\ td'.state = "COOLDOWN"
\* A frame step in which the detector starts measuring a pulse.
PulseAdmitted == td.state = "IDLE" /\ td'.state = "IN_TICK"
\* The gate lets every above-threshold frame through.
GateBypassed(d) == ~d.gate.enabled \/ d.gate.recovery_mode
\* Position of frame f in the second that starts at the installed epoch.
MsIntoSecond(d, f) == (f * FRAME_DURATION_MS - d.gate.epoch_ms) % SECOND_MS

\* C1 (MarkerSpec): for every pulse the detector measures, at most one event
\* is delivered, so never both a TickEvent and a TickMarkerEvent: no call
\* delivers more than one event and the events of one IDLE->IN_TICK->COOLDOWN
\* excursion are of at most one kind.
C1_AtMostOneEventPerPulse ==
    Len(events) <= 1 /\ Cardinality(pulse_events) <= 1

\* A marker has been delivered for the current pulse, after an earlier pulse
\* was accepted as a tick.
C1_Witness ==
    /\ pulse_events = {"MARKER"}
    /\ td.ticks_detected >= 1
    /\ td.state = "COOLDOWN"

\* C2 (TickSpec): every TickEvent has min_duration_ms <= duration_ms <=
\* TICK_MAX_DURATION_MS and a correlation peak above CORR_THRESHOLD_MULT
\* times the correlation noise floor, whatever the input and whatever
\* tunable changes were accepted before.
C2_TickEventBounds ==
    \A i \in 1..Len(events) :
        events[i].type = "TICK" =>
            /\ td.min_duration_ms <= events[i].duration_ms
            /\ events[i].duration_ms <= TICK_MAX_DURATION_MS
            /\ events[i].corr_peak > CORR_THRESHOLD_MULT * events[i].corr_noise_floor

\* A tick is delivered after the minimum duration was raised to 10 ms and the
\* correlation noise floor has risen above zero.
C2_Witness ==
    /\ "TICK" \in EventTypes
    /\ td.min_duration_ms = 1000
    /\ td.min_duration_ms # TICK_MIN_DURATION_MS
    /\ \E i \in 1..Len(events) : events[i].corr_noise_floor > 0

\* C3 (MarkerSpec): every TickMarkerEvent has a duration of 600 ms to 1500 ms,
\* and every one after the first reports at least MARKER_MIN_INTERVAL_MS
\* since the previous marker.
C3_MarkerEventBounds ==
    \A i \in 1..Len(events) :
        events[i].type = "MARKER" =>
            /\ MARKER_MIN_DURATION_MS <= events[i].duration_ms
            /\ events[i].duration_ms <= MARKER_MAX_DURATION_MS_CHECK
            /\ (events[i].number > 1 => events[i].interval_ms >= MARKER_MIN_INTERVAL_MS)

\* A second marker is delivered.
C3_Witness ==
    \E i \in 1..Len(events) : events[i].type = "MARKER" /\ events[i].number = 2

\* C4 (MarkerSpec): every pulse whose measured duration lies in [600, 1500] ms
\* and that starts at least 55 000 ms after the previous marker (or has no
\* previous marker) produces exactly one TickMarkerEvent and no TickEvent.
C4_MarkerPulseEmitsMarker ==
    [][ (PulseMeasured /\ IsMarkerDuration(DurationMs(td')) /\ ValidMarkerInterval(td))
        => (Len(events') = 1 /\ events'[1].type = "MARKER") ]_vars

\* C5 (TickSpec): a pulse whose duration is longer than 50 ms and shorter than
\* 600 ms produces no event and increments the rejected counter by exactly
\* one (and no other counter).
C5_GapZoneRejected ==
    [][ (PulseMeasured /\ DurationMs(td') > TICK_MAX_DURATION_MS
                       /\ DurationMs(td') < MARKER_MIN_DURATION_MS)
        => /\ events' = <<>>
           /\ td'.ticks_rejected = td.ticks_rejected + 1
           /\ td'.ticks_detected = td.ticks_detected
           /\ td'.markers_detected = td.markers_detected ]_vars

\* A gap-zone pulse that matched the tick template has just been rejected.
C5_Witness ==
    /\ td.state = "COOLDOWN"
    /\ td.cooldown_frames = MS_TO_FRAMES(TICK_COOLDOWN_MS)
    /\ DurationMs(td) > TICK_MAX_DURATION_MS
    /\ DurationMs(td) < MARKER_MIN_DURATION_MS
    /\ ValidCorrelation(td)
    /\ td.ticks_rejected = 1
    /\ events = <<>>

\* C6 (TickSpec): each TickEvent's timestamp is strictly greater than the
\* timestamp of every TickEvent delivered before it.
C6_TickTimestampsIncrease ==
    \A i \in 1..Len(events) :
        events[i].type = "TICK" => events[i].timestamp_ms > prev_tick_ts

\* A second tick is delivered.
C6_Witness ==
    "TICK" \in EventTypes /\ prev_tick_ts >= 0 /\ td.ticks_detected = 2

\* C7 (GateSpec): with gating enabled and the detector not in recovery mode,
\* an IDLE->IN_TICK transition happens only on a frame whose time satisfies
\* (current_ms - epoch_ms) mod 1000 in [0, 100] ms; outside that window the
\* detector stays in IDLE.
C7_GateWindow ==
    [][ (PulseAdmitted /\ td'.gate.enabled /\ ~td'.gate.recovery_mode)
        => /\ MsIntoSecond(td, td.frame_count) >= TICK_GATE_START_MS
           /\ MsIntoSecond(td, td.frame_count) <= TICK_GATE_END_MS ]_vars

\* After a tick was accepted inside the window of a non-zero epoch, a frame
\* above the threshold but outside the window has left the detector in IDLE.
C7_Witness ==
    /\ last_op = "frame"
    /\ td.state = "IDLE"
    /\ td.gate.enabled /\ ~td.gate.recovery_mode
    /\ td.gate.epoch_ms > 0
    /\ td.gate.last_tick_frame_gated > 0
    /\ td.ticks_detected = 1 /\ td.ticks_rejected = 0
    /\ pulse.age = 1
    /\ td.threshold_high < PulseInput(0).energy
    /\ MsIntoSecond(td, td.frame_count - 1) > TICK_GATE_END_MS

\* C8 (GateSpec): whenever gating is enabled and no tick has been accepted for
\* GATE_RECOVERY_MS of stream time, counted from the later of the moment
\* gating was enabled and the last accepted tick, the detector enters
\* recovery mode (at its next frame in IDLE after warmup).
C8_RecoveryEntered ==
    [][ ( /\ last_op' = "frame"
          /\ td.warmup_complete
          /\ td.state = "IDLE"
          /\ td.gate.enabled
          /\ (td.frame_count - gate_ref) * FRAME_DURATION_MS >= GATE_RECOVERY_MS )
        => td'.gate.recovery_mode ]_vars

\* C9 as stated (GateSpec): once in recovery mode the gate stays bypassed
\* until a tick is accepted, and accepting a tick clears recovery mode.
C9_BypassedUntilTick ==
    [][ /\ (td.gate.recovery_mode /\ ~GateBypassed(td')) => "TICK" \in TickTypes(events')
        /\ ("TICK" \in TickTypes(events') /\ td.gate.enabled) => ~td'.gate.recovery_mode
      ]_vars

\* C9 amended (GateSpec): once in recovery mode the gate stays bypassed until
\* a tick is accepted or the caller calls tick_detector_set_gating_enabled;
\* while bypassed, an above-threshold frame in IDLE starts a pulse whatever
\* its position in the second; accepting a tick clears recovery mode, so the
\* gate applies again.
C9_BypassedUntilTickOrSetGating ==
    [][ /\ (td.gate.recovery_mode /\ ~GateBypassed(td'))
              => ("TICK" \in TickTypes(events') \/ last_op' = "set_gating")
        /\ ( /\ last_op' = "frame" /\ td.state = "IDLE" /\ td.gate.recovery_mode
             /\ pulse'.age >= 1 /\ td.threshold_high < PulseInput(0).energy )
              => td'.state = "IN_TICK"
        /\ ("TICK" \in TickTypes(events') /\ td.gate.enabled) => ~td'.gate.recovery_mode
      ]_vars

\* A pulse admitted outside the gate window, thanks to recovery mode, has
\* been accepted as a tick, and recovery mode is cleared.
C9_Witness ==
    /\ "TICK" \in EventTypes
    /\ bypassed
    /\ td.gate.enabled /\ ~td.gate.recovery_mode
    /\ MsIntoSecond(td, td.tick_start_frame) > TICK_GATE_END_MS

\* C10 (TickSpec): during warmup the detector delivers no event and never
\* leaves IDLE, whatever the input energy.
C10_WarmupSilent ==
    [][ ~td.warmup_complete
        => /\ td'.state = "IDLE"
           /\ events' = <<>>
           /\ td'.ticks_detected = 0 /\ td'.markers_detected = 0
           /\ td'.ticks_rejected = 0 ]_vars

\* A warmup frame whose energy was above the detection threshold has been
\* processed, and the detector is still warming up, in IDLE.
C10_Witness ==
    /\ ~td.warmup_complete
    /\ last_op = "frame"
    /\ pulse.age >= 1
    /\ td.threshold_high < PulseInput(0).energy
    /\ td.state = "IDLE"

\* C11 (NoiseSpec): after every processed frame, warmup frames included, the
\* noise floor lies within [NOISE_FLOOR_MIN, NOISE_FLOOR_MAX], for any input.
C11_NoiseFloorClamped ==
    td.noise_floor >= NOISE_FLOOR_MIN /\ td.noise_floor <= NOISE_FLOOR_MAX

\* C13 (TickSpec): at every point after construction threshold_high equals
\* noise_floor x threshold_multiplier and threshold_low equals
\* threshold_high x 0.7.
C13_ThresholdsDerived ==
    /\ td.threshold_high = (td.noise_floor * td.threshold_multiplier) \div 10
    /\ td.threshold_low = (td.threshold_high * TICK_HYSTERESIS_TENTHS) \div 10

\* The threshold multiplier has just been changed, after the noise floor has
\* moved away from its initial value.
C13_Witness ==
    /\ last_op = "set_threshold_mult"
    /\ td.threshold_multiplier # TICK_THRESHOLD_MULT
    /\ td.noise_floor # NOISE_FLOOR_INIT
    /\ td.warmup_complete

\* Frames of silence after which the noise floor has decayed from its
\* initial 0.01 to NOISE_FLOOR_MIN: 51 warmup frames at 5% per frame leave
\* 0.00073, and 994 more frames at 0.2% per frame reach 0.0001.
SilenceSettleFrames == 1100

\* C14 (NoiseSpec): while every frame fed is silent, no event is delivered
\* and neither the noise floor nor a threshold increases from one frame to
\* the next; and once SilenceSettleFrames frames of silence have been fed
\* the noise floor has reached NOISE_FLOOR_MIN.
C14_SilenceDecays ==
    /\ [][ silent' => /\ events' = <<>>
                      /\ td'.state = "IDLE"
                      /\ td'.noise_floor <= td.noise_floor
                      /\ td'.threshold_high <= td.threshold_high
                      /\ td'.threshold_low <= td.threshold_low ]_vars
    /\ []((silent /\ td.frame_count >= SilenceSettleFrames)
            => td.noise_floor = NOISE_FLOOR_MIN)

\* Silence has been fed through warmup and beyond, and the noise floor has
\* come down from its initial value to NOISE_FLOOR_MIN.
C14_Witness ==
    /\ silent
    /\ td.warmup_complete
    /\ td.frame_count >= SilenceSettleFrames
    /\ td.noise_floor = NOISE_FLOOR_MIN
    /\ td.noise_floor < NOISE_FLOOR_INIT

(***************************************************************************)
(* Properties of the marker detector and the BCD frequency-domain detector *)
(***************************************************************************)
\* C12: after every processed frame, warmup and startup frames included, the
\* baseline of the marker detector and the baseline of the BCD
\* frequency-domain detector are not below their minimum.  (The source has no
\* maximum for either baseline.)
C12_BaselineClamped ==
    /\ md.baseline_energy >= MARKER_BASELINE_MIN
    /\ fd.baseline_energy >= BCD_FREQ_BASELINE_MIN

\* C20: after every frame the accumulator of each detector equals the sum of
\* the energies in its window (the unused slots of the window hold zero
\* while fewer energies than the window length have been seen).
C20_AccumulatorIsWindowSum ==
    /\ md.accumulated_energy = SeqSum(md.energy_history)
    /\ fd.accumulated_energy = SeqSum(fd.energy_history)

(***************************************************************************)
(* Properties of the BCD symbol windower                                   *)
(***************************************************************************)
SymbolNames == {"ZERO", "ONE", "P_MARKER", "NONE"}
IsMarkerLength(duration) == duration > BCD_SYMBOL_ONE_MAX_MS * DURATION_SCALE
LogIndex == 1..Len(sym_log)
EmittedSeconds == { sym_log[i].second : i \in LogIndex }

\* C15: every symbol event is for a second in 0..59 and carries a symbol of
\* {ZERO, ONE, P_MARKER, NONE}; P_MARKER is emitted only for a second of
\* VALID_P_POSITIONS, and a marker-length pulse in any other second is
\* emitted as ONE.
C15_SymbolEventWellFormed ==
    \A i \in LogIndex :
        LET e == sym_log[i] IN
        /\ e.second \in 0..59
        /\ e.symbol \in SymbolNames
        /\ e.symbol = "P_MARKER" => e.second \in {0, 9, 19, 29, 39, 49, 59}
        /\ (IsMarkerLength(e.duration) /\ e.second \notin {0, 9, 19, 29, 39, 49, 59})
               => e.symbol = "ONE"

\* A P_MARKER was emitted for second 9 and a marker-length pulse in second 1
\* was emitted as ONE.
C15_Witness ==
    /\ \E i \in LogIndex : sym_log[i].symbol = "P_MARKER" /\ sym_log[i].second = 9
    /\ \E i \in LogIndex : /\ IsMarkerLength(sym_log[i].duration)
                           /\ sym_log[i].second = 1
                           /\ sym_log[i].symbol = "ONE"

\* C16: the windower emits at most one symbol event for any given second of
\* a minute, whatever the order of the events of the two detectors.
C16_OneSymbolPerSecond ==
    \A i, j \in LogIndex :
        (i # j /\ sym_log[i].anchor_ms = sym_log[j].anchor_ms)
            => sym_log[i].second # sym_log[j].second

\* C17: while sync is LOCKED every second of the minute gets a symbol event:
\* no second between two seconds that got one is left without.
C17_EverySecondGetsSymbol ==
    \A a, b \in EmittedSeconds : \A k \in a..b : k \in EmittedSeconds

\* C18: the windower is ACQUIRING exactly as long as no symbol has been
\* emitted.
C18_AcquiringUntilFirstSymbol ==
    (bcd_corr.state = "ACQUIRING") <=> (Len(sym_log) = 0)

\* C19: the windower is TRACKING only if three symbol intervals in a row were
\* each within [900, 1100] ms.
GoodIntervalAt(i) == i >= 2 /\ IsGoodInterval(sym_log[i].interval_ms)

C19_TrackingNeedsThreeInARow ==
    bcd_corr.state = "TRACKING"
        => \E i \in LogIndex :
               /\ i + 2 <= Len(sym_log)
               /\ GoodIntervalAt(i) /\ GoodIntervalAt(i + 1) /\ GoodIntervalAt(i + 2)

(***************************************************************************)
(* Properties of the minute-marker detector's timeout and cooldown         *)
(***************************************************************************)
\* C21: the marker detector is never in IN_MARKER with a pulse longer than
\* MARKER_MAX_DURATION_MS: the frame that takes the pulse past that length
\* puts the detector into COOLDOWN.
C21_MarkerTimeoutForcesCooldown ==
    [][ /\ (md'.state = "IN_MARKER" =>
              md'.marker_duration_frames * MARKER_FRAME_DURATION_MS
                  <= MARKER_TIMEOUT_MS)
        /\ (/\ md.state = "IN_MARKER"
            /\ md'.frame_count # md.frame_count
            /\ (md.marker_duration_frames + 1) * MARKER_FRAME_DURATION_MS
                   > MARKER_TIMEOUT_MS
            => md'.state = "COOLDOWN") ]_vars

\* A pulse that was cut off by the timeout.
C21_Witness ==
    /\ md.state = "COOLDOWN"
    /\ md.marker_duration_frames * MARKER_FRAME_DURATION_MS > MARKER_TIMEOUT_MS

\* The time between the last two marker events is at least the cooldown.
MarkerEventsApart ==
    md_events # <<>> /\ md_prev_event_ms >= 0
        => md_events[1].timestamp_ms - md_prev_event_ms >= MARKER_COOLDOWN_MS

\* C22 as stated: the detector leaves COOLDOWN only after 30 000 ms in it,
\* and two consecutive marker events are at least 30 000 ms apart.
C22_CooldownLastsThirtySeconds ==
    [][ /\ (md.state = "COOLDOWN" /\ md'.state = "IDLE"
              => (md.frame_count - md_since) * MARKER_FRAME_DURATION_MS
                     >= MARKER_COOLDOWN_MS)
        /\ MarkerEventsApart' ]_vars

\* C22, amended: the detector leaves COOLDOWN after exactly
\* MS_TO_FRAMES(MARKER_COOLDOWN_MS) frames (30 000 ms rounded to the nearest
\* frame, 29 998.08 ms), to IDLE only, and two consecutive marker events are
\* at least 30 000 ms apart.
C22_CooldownLastsRoundedFrames ==
    [][ /\ (md.state = "COOLDOWN" /\ md'.state # "COOLDOWN"
              => /\ md'.state = "IDLE"
                 /\ md.frame_count - md_since
                        = MARKER_MS_TO_FRAMES(MARKER_COOLDOWN_MS))
        /\ (md.state = "COOLDOWN" /\ md'.frame_count # md.frame_count
              /\ md.frame_count - md_since
                     < MARKER_MS_TO_FRAMES(MARKER_COOLDOWN_MS)
              => md'.state = "COOLDOWN")
        /\ MarkerEventsApart' ]_vars

\* A second marker event, delivered after the cooldown of the first.
C22_Witness ==
    /\ md_events # <<>>
    /\ md_prev_event_ms >= 0

(***************************************************************************)
(* Properties of the BCD time-domain detector                              *)
(***************************************************************************)
\* The detector's last MIN_LOW_FRAMES frames were all below `threshold`.
BcdTimeRecentAllLow(recent, threshold) ==
    /\ Len(recent) = MIN_LOW_FRAMES
    /\ \A i \in 1 .. MIN_LOW_FRAMES : recent[i] < threshold

\* C23: the BCD time-domain detector leaves IN_PULSE only for COOLDOWN and
\* enters COOLDOWN only from IN_PULSE, in exactly the frame that is the third
\* in a row with energy below threshold_low; a frame of the pulse at or above
\* threshold_low sets the count of low frames to zero and keeps the pulse open.
C23_ClosesOnThirdLowFrame ==
    [][ bt'.frame_count # bt.frame_count =>
          /\ (bt'.state = "COOLDOWN" /\ bt.state # "COOLDOWN"
                => bt.state = "IN_PULSE")
          /\ (bt.state = "IN_PULSE" =>
                /\ bt'.state \in {"IN_PULSE", "COOLDOWN"}
                /\ (bt'.state = "COOLDOWN"
                      <=> BcdTimeRecentAllLow(bt_recent', bt.threshold_low))
                /\ (bt_level' >= bt.threshold_low
                      => /\ bt'.consecutive_low_frames = 0
                         /\ bt'.state = "IN_PULSE")) ]_vars

\* A pulse that was just closed, after frames that kept it open.
C23_Witness ==
    /\ bt.state = "COOLDOWN"
    /\ bt.cooldown_frames = BCD_TIME_MS_TO_FRAMES(BCD_TIME_COOLDOWN_MS)
    /\ bt.pulse_duration_frames >= 2 * MIN_LOW_FRAMES

C28_TickSetterRejects ==
    [][ /\ api_calls' = api_calls + 1
        /\ \/ /\ call'.fn = "tick_detector_set_threshold_mult"
              /\ (call'.value < 10 \/ call'.value > 50)
           \/ /\ call'.fn = "tick_detector_set_min_duration_ms"
              /\ (call'.value < 100 \/ call'.value > 1000)
        => /\ call'.ret = "false"
           /\ td' = td ]_vars

\* A rejected call on a detector that has run, with a value above the range.
C28_Witness ==
    /\ call.fn = "tick_detector_set_min_duration_ms"
    /\ call.value > 1000
    /\ call.ret = "false"
    /\ last_op = "rejected"
    /\ td.frame_count > 0

\* C29: a marker detector setter called with a value outside its range
\* leaves the detector unchanged and tells the caller that it rejected the
\* value.
C29_MarkerSetterReportsRejection ==
    [][ \/ /\ call'.fn = "marker_detector_set_threshold_mult"
           /\ ~MarkerSetThresholdMultOk(call'.value)
        \/ /\ call'.fn = "marker_detector_set_noise_adapt_rate"
           /\ ~MarkerSetNoiseAdaptRateOk(call'.value)
        \/ /\ call'.fn = "marker_detector_set_min_duration_ms"
           /\ ~MarkerSetMinDurationOk(call'.value)
        => /\ md' = md
           /\ call'.ret = "false" ]_vars

(***************************************************************************)
(* Properties of the FFT processor                                         *)
(***************************************************************************)
IsPowerOfTwo(n) == \E k \in 0 .. 30 : n = Pow2(k)

\* C30: fft_processor_create returns no processor when the size asked for
\* is not a power of two.
C30_NonPowerOfTwoRejected ==
    ~IsPowerOfTwo(fft_req.fft_size) => ~fft.valid

(***************************************************************************)
(* Properties of the detector manager                                      *)
(***************************************************************************)
\* C26: with a tick correlator created and an external tick callback
\* registered, the manager hands every TickEvent that the tick detector
\* emits in a frame both to the tick correlator and to the callback.
C26_TicksReachCorrelatorAndCallback ==
    [][ /\ mgr'.detector_samples # mgr.detector_samples
        /\ mgr.tick_detector /\ mgr.tick_correlator /\ mgr.tick_callback
        => /\ mgr_out'.tick_correlator = EventsOfType(events', "TICK")
           /\ mgr_out'.tick_callback =
                  ExternalTickEvents(EventsOfType(events', "TICK")) ]_vars

\* C27: pushing detector-path samples leaves the tone trackers, the
\* slow-marker detector and the display sample counter as they were, and
\* pushing a display-path sample leaves the tick detector, the marker
\* detector and the detector sample counter as they were.
C27_PathsIsolated ==
    [][ /\ (mgr'.detector_samples # mgr.detector_samples
              => /\ mgr'.tone_carrier = mgr.tone_carrier
                 /\ mgr'.tone_500 = mgr.tone_500
                 /\ mgr'.tone_600 = mgr.tone_600
                 /\ mgr'.slow_marker = mgr.slow_marker
                 /\ mgr'.display_samples = mgr.display_samples)
        /\ (mgr'.display_samples # mgr.display_samples
              => /\ td' = td
                 /\ md' = md
                 /\ mgr'.detector_samples = mgr.detector_samples) ]_vars

\* Both paths have been fed and every component has completed a frame.
C27_Witness ==
    /\ mgr.detector_samples > 0
    /\ mgr.display_samples > 0
    /\ td.frame_count > 0
    /\ md.frame_count > 0
    /\ mgr.tone_carrier.frame_count > 0
    /\ mgr.tone_600.frame_count > 0
    /\ mgr.slow_marker.frames > 0

(***************************************************************************)
(* Properties of the sync detector                                         *)
(***************************************************************************)
SyncEdges ==
    { <<"SEARCHING", "ACQUIRING">>, <<"ACQUIRING", "LOCKED">>,
      <<"LOCKED", "RECOVERING">>, <<"RECOVERING", "LOCKED">>,
      <<"RECOVERING", "SEARCHING">> }

C31_FailedComponentFailsConstructor ==
    (/\ mgr_req.called
     /\ \E c \in ManagerComponents :
            ManagerEnabled(mgr_req.config, c) /\ c \in mgr_req.fails)
        => ~mgr.created

\* C32: when a buffer or FFT allocation of tick_detector_create fails, the
\* call returns no detector and every resource it acquired has been released
\* exactly once.
C32_FailedAllocationLeavesNothing ==
    (tdc.called /\ tdc.fails \cap TickBufferSites # {})
        => /\ ~tdc.returned
           /\ \A s \in tdc.acquired : tdc.released[s] = 1

(***************************************************************************)
(* Properties of the tick detector's pulse accounting                      *)
(***************************************************************************)
\* A frame step in which the detector stops measuring a pulse.
LeavesInTick == td.state = "IN_TICK" /\ td'.state # "IN_TICK"
CountedPulses(d) == d.ticks_detected + d.markers_detected + d.ticks_rejected

C34_OverLengthPulseRejected ==
    [][ (/\ td.state = "IN_TICK"
         /\ td'.frame_count = td.frame_count + 1
         /\ DurationMs(td') > MARKER_MAX_DURATION_MS)
        => /\ td'.state = "COOLDOWN"
           /\ td'.ticks_rejected = td.ticks_rejected + 1
           /\ Len(events') = 0 ]_vars

(***************************************************************************)
(* Properties of the BCD time-domain detector's pulse length               *)
(***************************************************************************)
\* The frames of the longest pulse the detector accepts, with the low frames
\* that close it.
BcdTimeInPulseLimit ==
    BCD_TIME_MS_TO_FRAMES(BCD_TIME_PULSE_MAX_MS) + MIN_LOW_FRAMES

\* C35: the BCD time-domain detector does not stay in IN_PULSE: whatever the
\* input, it has left IN_PULSE once the pulse is longer than the longest
\* pulse it accepts.
C35_InPulseBounded ==
    bt.state = "IN_PULSE" => bt.pulse_duration_frames <= BcdTimeInPulseLimit

(***************************************************************************)
(* Properties of the BCD windower's gating and windows                     *)
(***************************************************************************)
\* A step in which the correlator is handed a pulse event.
PulseEventHandled == bcd_calls' = bcd_calls + 1

\* The running totals of a window.
WindowTotals(c) ==
    [ time_energy_sum   |-> c.time_energy_sum,
      time_duration_sum |-> c.time_duration_sum,
      time_event_count  |-> c.time_event_count,
      time_first_ms     |-> c.time_first_ms,
      time_last_ms      |-> c.time_last_ms,
      freq_energy_sum   |-> c.freq_energy_sum,
      freq_duration_sum |-> c.freq_duration_sum,
      freq_event_count  |-> c.freq_event_count,
      freq_first_ms     |-> c.freq_first_ms,
      freq_last_ms      |-> c.freq_last_ms ]

\* The totals of a window that holds the one pulse event `in`.
TotalsOfOne(in) ==
    LET time == in.source = "TIME"
        freq == in.source = "FREQ"
    IN  [ time_energy_sum   |-> IF time THEN in.energy ELSE 0,
          time_duration_sum |-> IF time THEN in.duration_ms ELSE 0,
          time_event_count  |-> IF time THEN 1 ELSE 0,
          time_first_ms     |-> IF time THEN in.timestamp_ms ELSE 0,
          time_last_ms      |-> IF time THEN in.timestamp_ms ELSE 0,
          freq_energy_sum   |-> IF freq THEN in.energy ELSE 0,
          freq_duration_sum |-> IF freq THEN in.duration_ms ELSE 0,
          freq_event_count  |-> IF freq THEN 1 ELSE 0,
          freq_first_ms     |-> IF freq THEN in.timestamp_ms ELSE 0,
          freq_last_ms      |-> IF freq THEN in.timestamp_ms ELSE 0 ]

\* C36: a pulse event handed to the windower while the sync detector is not
\* LOCKED, or while no sync source is linked, is not added to the totals of
\* any window, and no window is open when the call returns.
C36_UnlockedEventIgnored ==
    [][ (PulseEventHandled /\ bcd_in'.sync.state # "LOCKED")
        => /\ ~bcd_corr'.window_open
           /\ WindowTotals(bcd_corr') = WindowTotals(bcd_corr) ]_vars

\* A pulse event arrived after the sync detector had lost lock, with a window
\* open: the window was closed and its symbol delivered.
C36_Witness ==
    /\ bcd_in.source \in {"TIME", "FREQ"}
    /\ bcd_in.sync.state = "ACQUIRING"
    /\ Len(sym_events) = 1
    /\ ~bcd_corr.window_open

\* The interval of the open window holds `timestamp_ms`.
InOpenWindow(c, timestamp_ms) ==
    /\ c.window_start_ms <= timestamp_ms
    /\ timestamp_ms < c.window_start_ms + WINDOW_DURATION_MS

\* C37: every pulse event in the totals of the open window has its timestamp
\* within [window_start_ms, window_start_ms + 1000 ms), where window_start_ms
\* is the anchor plus the window's second times 1000 ms.  (Each detector
\* reports in timestamp order, so the first and the last timestamp of a
\* detector bound all of its events.)
C37_EventsInsideWindow ==
    bcd_corr.window_open =>
        /\ bcd_corr.window_start_ms
               = bcd_corr.window_anchor_ms
                   + bcd_corr.current_second * WINDOW_DURATION_MS
        /\ (bcd_corr.time_event_count > 0 =>
               /\ InOpenWindow(bcd_corr, bcd_corr.time_first_ms)
               /\ InOpenWindow(bcd_corr, bcd_corr.time_last_ms))
        /\ (bcd_corr.freq_event_count > 0 =>
               /\ InOpenWindow(bcd_corr, bcd_corr.freq_first_ms)
               /\ InOpenWindow(bcd_corr, bcd_corr.freq_last_ms))

\* The pulse event `in` arrives with a window open and belongs to another
\* second, or the anchor has changed.
CausesTransition(c, in) ==
    /\ c.window_open
    /\ in.sync.state = "LOCKED"
    /\ \/ in.sync.last_marker_ms # c.window_anchor_ms
       \/ bcd_window_get_second_for_timestamp(in.timestamp_ms,
                                              in.sync.last_marker_ms)
              # c.current_second

\* C38: a pulse event that causes a window transition is added only to the
\* newly opened window: exactly one symbol event is delivered, it is the one
\* the open window gives without that event, and the new window's totals are
\* those of that one event.
C38_TransitionEventInNewWindow ==
    [][ (PulseEventHandled /\ CausesTransition(bcd_corr, bcd_in'))
        => /\ sym_events' = bcd_window_close(bcd_corr).ev
           /\ Len(sym_events') = 1
           /\ bcd_corr'.window_open
           /\ WindowTotals(bcd_corr') = TotalsOfOne(bcd_in') ]_vars

\* A window that held events of both detectors was just closed by an event
\* of another second, which is alone in the new window.
C38_Witness ==
    /\ Len(sym_events) = 1
    /\ sym_events[1].source = "BOTH"
    /\ bcd_corr.window_open
    /\ bcd_corr.current_second # sym_events[1].second
    /\ bcd_corr.time_event_count + bcd_corr.freq_event_count = 1

\* C39: bcd_window_close and close_window, run on the same correlator, leave
\* the same correlator and deliver the same symbol events.
C39_ClosersEquivalent ==
    close_window(bcd_corr) = bcd_window_close(bcd_corr)

\* C40: the symbol events are delivered with non-decreasing timestamps.
C40_SymbolTimestampsMonotonic ==
    \A i, j \in LogIndex :
        i < j => sym_log[i].timestamp_ms <= sym_log[j].timestamp_ms

=============================================================================
